---- MODULE Spec2Model ----
(***************************************************************************)
(* Model of the pi-acp adapter core: the per-session pending-prompt slot   *)
(* (SessionManager / SessionRuntime), the PiProcess request correlation    *)
(* layer, the tool-call tracker's snapshot/diff bookkeeping, and the       *)
(* routing of stdout lines to outward updates.                             *)
(*                                                                         *)
(* The specifications share the variables below:                           *)
(*   Spec      prompt / cancel / subprocess events / error / exit          *)
(*   SpecProc  PiProcess.request, response lines, timeouts, exit           *)
(*   SpecTool  SessionToolHandler start / snapshot / update / end          *)
(*   SpecLine  stdout lines -> handlePiLine -> message / thought chunks    *)
(*   SpecCfg   setModel / setConfigOption and the refresh that follows     *)
(*   SpecMap   SessionMapStore get / set / merge on the map file            *)
(*   SpecMgr   loadSession: resolveSessionPath, spawn, switch_session      *)
(*   SpecPure  mapStopReason and resolveModelId on drawn inputs            *)
(*   SpecFork  createForkedSessionFile on drawn source files               *)
(*   SpecBeat  text prompts, their heartbeat intervals and the triggers    *)
(*   SpecQueue loadSession and the initial notifications it queues         *)
(*   SpecStatus SessionStatusReporter.update on drawn (state, detail) pairs *)
(*   SpecIso   two sessions, each with its own state object and process    *)
(*   SpecReplay replayHistory on drawn message histories and outcomes       *)
(*   SpecRefresh refreshSessionConfig on drawn subprocess model reports     *)
(* SpecFair and SpecProcFair add weak fairness of the agent_end           *)
(* continuation and of the request timers to Spec and SpecProc.            *)
(***************************************************************************)
EXTENDS Integers, Sequences, FiniteSets, TLC

(***************************************************************************)
(* Bounds                                                                  *)
(***************************************************************************)
MaxPrompts == 2
MaxTurns == 2
MaxCancels == 1
MaxRequests == 3
MaxToolEvents == 3
MaxLines == 3
MaxCfgCalls == 2
MaxMapOps == 2
MaxLoads == 2
MaxResolves == 2
MaxForkLines == 3
MaxListeners == 2
MaxBeats == 1
MaxStatusCalls == 3
MaxIsoSteps == 5
MaxMessages == 2
MaxModels == 2
MaxRefreshes == 2

Sessions == {"s1"}
Prompts == 1..MaxPrompts
NoPrompt == 0

\* The repository holds two SessionRuntime sources: src/core/runtime/runtime.ts
\* (synchronous agent_end, turn_end resolves) and the one stored in
\* src/core/session/paths.ts (asynchronous agent_end, turn_end only reports).
RuntimeImpls == {"runtime_ts", "paths_ts"}

PromptKinds == {"text", "slash"}
StopReasonInputs == {"stop", "length", "aborted", "toolUse", "bogus", "constructor", "missing"}
EventTypes == {"turn_start", "turn_end", "agent_end", "message_update", "tool_execution_update"}

VARIABLES
  runtimeImpl,     \* which SessionRuntime source the build links
  alive,           \* [Sessions -> BOOLEAN] subprocess has not exited
  pendingPrompt,   \* [Sessions -> Prompts \cup {NoPrompt}] session.pendingPrompt (whose closures it holds)
  promptSession,   \* [Prompts -> Sessions \cup {"-"}] session a prompt() call named
  promptKind,      \* [Prompts -> PromptKinds \cup {"-"}] first block of a suspended call: slash command or text
  promptPc,        \* [Prompts -> {"new","await","pending","done"}] position of the prompt() call
  promptResult,    \* [Prompts -> result string] value the call returned / error it threw
  settleCount,     \* [Prompts -> Nat] invocations of the call's resolve/reject closures
  settledBy,       \* [Prompts -> record] trigger that invoked the closure last
  heartbeat,       \* [Prompts -> BOOLEAN] setInterval timer of the call is armed
  piInbox,         \* [Sessions -> Seq(Prompts)] prompt commands written to stdin, not yet picked up
  piRun,           \* [Sessions -> Prompts \cup {NoPrompt}] prompt the subprocess is working on
  abortsSent,      \* [Sessions -> Nat] abort commands written to stdin
  agentEndTasks,   \* [Sessions -> Seq(Prompts)] handleAgentEnd calls suspended in getSummary
  turnEnds,        \* [Sessions -> Nat] turn_end lines handled during the subprocess's current run
  agentEndLog,     \* [Sessions -> Seq] the last agent_end handling: how its summary request
                   \* ended ("none": no request), then what it did, in program order
  commandChunks,   \* [Prompts -> Seq] agent_message_chunk texts sent by the prompt's command action
  beats            \* [Prompts -> Nat] heartbeat notifications emitted for the call

promptVars == <<runtimeImpl, alive, pendingPrompt, promptSession, promptKind, promptPc,
                promptResult, settleCount, settledBy, heartbeat, piInbox, piRun,
                abortsSent, agentEndTasks, turnEnds, agentEndLog, commandChunks,
                beats>>

\* PiProcess (one subprocess wrapper), used by SpecProc
VARIABLES
  exited,          \* the proc 'exit' event has fired
  requestCounter,  \* PiProcess.requestCounter
  pendingRequests, \* PiProcess.pendingRequests: correlation id -> request() call whose closures it holds
  timers,          \* request() calls whose setTimeout timer is armed
  reqId,           \* [Calls -> Nat] correlation id given to a request() call (0: not called yet)
  reqOutcome,      \* [Calls -> outcome] how the call's promise was settled
  reqSettles,      \* [Calls -> Nat] invocations of the call's resolve/reject
  listeners,       \* number of callbacks in PiProcess.listeners
  delivered,       \* the listeners (by position) the line handler called in its last run, in call order
  errorLog         \* the distinct messages the line handler's catch block has logged

deliveryVars == <<listeners, delivered, errorLog>>
procVars == <<exited, requestCounter, pendingRequests, timers, reqId, reqOutcome, reqSettles,
              listeners, delivered, errorLog>>

\* SessionToolHandler state of one session, used by SpecTool
VARIABLES
  toolCallInputs,    \* session.toolCallInputs: ids with a stored input summary
  toolCallSnapshots, \* session.toolCallSnapshots: id -> [path, oldText]
  files,             \* the file system: absolute path -> text, or Missing
  snapshotReads,     \* snapshotFile calls suspended in `await readFile`
  emitted,           \* tool_call / tool_call_update notifications, in emission order
  nToolEvents,       \* tool_execution_* lines handled so far
  toolEvents,        \* the tool_execution_* lines handled so far, in order
  readWarnings       \* `read failed for <path>` warnings logged by readTextFileSync

toolVars == <<toolCallInputs, toolCallSnapshots, files, snapshotReads, emitted, nToolEvents,
              toolEvents, readWarnings>>

\* One session's stdout line stream and the chunks sent outward, used by SpecLine
VARIABLES
  piSent,        \* every line the subprocess has written to stdout, in order
  handledLines,  \* positions in piSent of the lines given to handlePiLine, in order
  nRead,         \* number of lines readline has delivered so far
  chunks,        \* agent_message_chunk / agent_thought_chunk updates, in emission order
  summaryTasks   \* handleAgentEnd calls suspended in `await getSummary`

lineVars == <<piSent, handledLines, nRead, chunks, summaryTasks>>

\* Configuration of one live session and its subprocess, used by SpecCfg
VARIABLES
  cfgCall,      \* the setModel / setConfigOption call in progress, or NoCall
  nCfgCalls,    \* calls made so far
  cfgResults,   \* outcome of each finished call, in order
  piWritten,    \* commands written to the subprocess, in order
  piToggles,    \* the subprocess's own auto-compaction / auto-retry settings
  piModel,      \* the subprocess's current model
  sessToggles,  \* session.autoCompactionEnabled / autoRetryEnabled
  modelMap,     \* session.modelMap
  broadcasts    \* config_option_update notifications, in order

cfgVars == <<cfgCall, nCfgCalls, cfgResults, piWritten, piToggles, piModel,
             sessToggles, modelMap, broadcasts>>

\* The persisted id-to-path map file and the SessionMapStore calls in progress,
\* used by SpecMap and SpecMgr
VARIABLES
  mapFile,   \* content of the map file
  mapOps     \* SessionMapStore calls started so far: a sequence of call records

mapVars == <<mapFile, mapOps>>

\* The live-session map and the subprocesses spawned for it, used by SpecMgr
VARIABLES
  sessions,     \* SessionManager.sessions: id -> [proc, sessionFile], or NoSession
  spawned,      \* every subprocess spawned so far: [sessionId, running]
  transcripts,  \* what scanSessions finds: id -> transcript path
  loadCall,     \* the loadSession / resumeSession call in progress, or NoLoad
  mgrResults,   \* one record per finished call
  initTasks,    \* per finished call: its queueSessionInitUpdates timer / info read
  initUpdates   \* initial notifications emitted so far, in order

initVars == <<initTasks, initUpdates>>
mgrVars == <<sessions, spawned, transcripts, loadCall, mgrResults, initTasks, initUpdates>>

\* Inputs and results of the pure helpers, used by SpecPure and SpecFork
VARIABLES
  stopReasonIn,   \* the stopReason given to mapStopReason
  stopReasonOut,  \* what mapStopReason returned, or Unset
  resolveIn,      \* [map, model, form]: a model map and a way of naming a model
  resolveOut,     \* what each resolveModelId call on that input returned, in order
  forkIn,         \* the lines of the source transcript file
  forkOut         \* result of createForkedSessionFile, or Unset

pureVars == <<stopReasonIn, stopReasonOut, resolveIn, resolveOut, forkIn, forkOut>>

\* The status notification of one session, used by SpecStatus
VARIABLES
  statusImpl,        \* which SessionStatusReporter source the build links
  statusToolCallId,  \* session.statusToolCallId is set
  statusState,       \* session.statusState, or Undef
  statusDetail,      \* session.statusDetail: a text, "null", or Undef
  statusEmitted,     \* the status notifications emitted, in order
  nStatusCalls       \* update calls made so far

statusVars == <<statusImpl, statusToolCallId, statusState, statusDetail, statusEmitted,
                nStatusCalls>>

\* Two live sessions side by side, used by SpecIso
VARIABLES
  sessionStates,  \* [SessionPair -> record]: the fields of each SessionState and of its PiProcess
  nIsoSteps       \* calls and subprocess events handled so far

isoVars == <<sessionStates, nIsoSteps>>

\* History replay of a loaded session, used by SpecReplay
VARIABLES
  history,        \* the messages the subprocess returns for get_messages
  replayPc,       \* "idle", "requested" (replayHistory awaits get_messages) or "done"
  replayOutcome,  \* how the get_messages request settled
  replayEmitted,  \* the message chunks emitted by the replay, in order
  replayWarnings, \* logWarn calls of replayHistory
  loadResult      \* what loadSession gave its caller: Undef, "returned" or "raised"

replayVars == <<history, replayPc, replayOutcome, replayEmitted, replayWarnings, loadResult>>

\* Model bookkeeping of refreshSessionConfig, used by SpecRefresh
VARIABLES
  piCurrent,       \* the model of the subprocess's get_state answer, or NoModel
  piAvailable,     \* the models of the subprocess's get_available_models answer
  sessionModelMap, \* session.modelMap after the last refresh
  currentModelId,  \* session.currentModelId
  modelsResult,    \* the models the last refresh knew (availableModels after the unshift)
  nRefreshes       \* refreshSessionConfig calls so far

refreshVars == <<piCurrent, piAvailable, sessionModelMap, currentModelId, modelsResult, nRefreshes>>

vars == <<promptVars, procVars, toolVars, lineVars, cfgVars, mapVars, mgrVars, pureVars, statusVars, isoVars, replayVars, refreshVars>>

\* the variables each layer leaves alone
nonPromptVars == <<procVars, toolVars, lineVars, cfgVars, mapVars, mgrVars, pureVars, statusVars, isoVars, replayVars, refreshVars>>
nonProcVars == <<promptVars, toolVars, lineVars, cfgVars, mapVars, mgrVars, pureVars, statusVars, isoVars, replayVars, refreshVars>>
nonToolVars == <<promptVars, procVars, lineVars, cfgVars, mapVars, mgrVars, pureVars, statusVars, isoVars, replayVars, refreshVars>>
nonLineVars == <<promptVars, procVars, toolVars, cfgVars, mapVars, mgrVars, pureVars, statusVars, isoVars, replayVars, refreshVars>>
nonCfgVars == <<promptVars, procVars, toolVars, lineVars, mapVars, mgrVars, pureVars, statusVars, isoVars, replayVars, refreshVars>>
nonMapVars == <<promptVars, procVars, toolVars, lineVars, cfgVars, mgrVars, pureVars, statusVars, isoVars, replayVars, refreshVars>>
nonMgrVars == <<promptVars, procVars, toolVars, lineVars, cfgVars, mapVars, pureVars, statusVars, isoVars, replayVars, refreshVars>>
nonMgrMapVars == <<promptVars, procVars, toolVars, lineVars, cfgVars, pureVars, statusVars, isoVars, replayVars, refreshVars>>
nonStatusVars == <<promptVars, procVars, toolVars, lineVars, cfgVars, mapVars, mgrVars, pureVars, isoVars, replayVars, refreshVars>>
nonIsoVars == <<promptVars, procVars, toolVars, lineVars, cfgVars, mapVars, mgrVars, pureVars, statusVars, replayVars, refreshVars>>
nonReplayVars == <<promptVars, procVars, toolVars, lineVars, cfgVars, mapVars, mgrVars, pureVars, statusVars, isoVars, refreshVars>>
nonPureVars == <<promptVars, procVars, toolVars, lineVars, cfgVars, mapVars, mgrVars, statusVars, isoVars, replayVars, refreshVars>>

NoTrigger == [kind |-> "none", tag |-> NoPrompt]

(***************************************************************************)
(* SessionRuntime.mapStopReason / STOP_REASON_MAP                          *)
(***************************************************************************)
\* STOP_REASON_MAP[reason]: a property read on an object literal, which also
\* finds the names the object inherits from Object.prototype
STOP_REASON_MAP(reason) ==
  CASE reason = "stop" -> "end_turn"
    [] reason = "length" -> "max_tokens"
    [] reason = "aborted" -> "cancelled"
    [] reason = "toolUse" -> "end_turn"
    [] reason = "constructor" -> "[Function: Object]"
    [] OTHER -> "undefined"

mapStopReason(reason) ==
  LET looked == IF reason = "missing" THEN "undefined" ELSE STOP_REASON_MAP(reason)
  IN  IF looked = "undefined" THEN "end_turn" ELSE looked

\* closures that settle the promise and leave the interval running
InvokeClosure_LeavesTimer(p, result, trigger) ==
  /\ promptResult' = [promptResult EXCEPT ![p] = IF settleCount[p] = 0 THEN result ELSE @]
  /\ promptPc' = [promptPc EXCEPT ![p] = "done"]
  /\ settleCount' = [settleCount EXCEPT ![p] = @ + 1]
  /\ settledBy' = [settledBy EXCEPT ![p] = trigger]
  /\ UNCHANGED heartbeat

(***************************************************************************)
(* Invoking the closures stored in session.pendingPrompt:                  *)
(* withHeartbeat's wrappers clear the interval, then settle the promise.   *)
(***************************************************************************)
InvokeClosure(p, result, trigger) ==
  /\ promptResult' = [promptResult EXCEPT ![p] = IF settleCount[p] = 0 THEN result ELSE @]
  /\ promptPc' = [promptPc EXCEPT ![p] = "done"]
  /\ settleCount' = [settleCount EXCEPT ![p] = @ + 1]
  /\ settledBy' = [settledBy EXCEPT ![p] = trigger]
  /\ heartbeat' = [heartbeat EXCEPT ![p] = FALSE]

NoSettle == UNCHANGED <<promptResult, promptPc, settleCount, settledBy, heartbeat>>

\* resolvePendingPrompt that settles the operation and leaves it in the slot
resolvePendingPrompt_KeepsSlot(s, stopReason, trigger) ==
  IF pendingPrompt[s] # NoPrompt
  THEN /\ InvokeClosure(pendingPrompt[s], stopReason, trigger)
       /\ UNCHANGED pendingPrompt
  ELSE /\ NoSettle
       /\ UNCHANGED pendingPrompt

\* SessionRuntime.resolvePendingPrompt
resolvePendingPrompt(s, stopReason, trigger) ==
  IF pendingPrompt[s] # NoPrompt
  THEN /\ InvokeClosure(pendingPrompt[s], stopReason, trigger)
       /\ pendingPrompt' = [pendingPrompt EXCEPT ![s] = NoPrompt]
  ELSE /\ NoSettle
       /\ UNCHANGED pendingPrompt

(***************************************************************************)
(* SessionStatsReporter.getSummary and the body of handleAgentEnd          *)
(***************************************************************************)
SummaryOutcomes == {"summary", "empty", "failure", "timeout", "exited"}
NoSummary == "null"

\* getSummary: null when the request throws or answers success=false, else
\* formatSummary's text, which is empty when the statistics hold no figures
getSummary(outcome) ==
  CASE outcome = "summary" -> "Tokens: 12"
    [] outcome = "empty" -> ""
    [] OTHER -> NoSummary

\* handleAgentEnd that resolves the prompt first and emits the summary after
agentEndEffects_ResolveFirst(summary, pending) ==
  (IF pending THEN <<"resolve end_turn">> ELSE <<>>)
  \o (IF summary \notin {NoSummary, ""} THEN <<"agent_message_chunk">> ELSE <<>>)

\* handleAgentEnd after the await: `if (summary) emitText(...)`, then
\* resolvePendingPrompt(session, "end_turn")
agentEndEffects(summary, pending) ==
  (IF summary \notin {NoSummary, ""} THEN <<"agent_message_chunk">> ELSE <<>>)
  \o (IF pending THEN <<"resolve end_turn">> ELSE <<>>)

(***************************************************************************)
(* SessionManager.prompt: synchronous part up to the awaited slash check   *)
(***************************************************************************)
PromptCall(p, s, k) ==
  /\ promptPc[p] = "new"
  /\ \A q \in Prompts : q < p => promptPc[q] # "new"
  /\ promptSession' = [promptSession EXCEPT ![p] = s]
  /\ IF pendingPrompt[s] # NoPrompt
     THEN /\ promptPc' = [promptPc EXCEPT ![p] = "done"]
          /\ promptResult' = [promptResult EXCEPT ![p] = "Prompt already in progress"]
          /\ UNCHANGED promptKind
     ELSE /\ promptPc' = [promptPc EXCEPT ![p] = "await"]
          /\ promptKind' = [promptKind EXCEPT ![p] = k]
          /\ UNCHANGED promptResult
  /\ UNCHANGED <<runtimeImpl, alive, pendingPrompt, settleCount, settledBy, heartbeat,
                 piInbox, piRun, abortsSent, agentEndTasks, turnEnds, agentEndLog, commandChunks>>
  /\ UNCHANGED beats
  /\ UNCHANGED nonPromptVars

\* how a command action ends: it makes no request and sends its usage line;
\* its request is answered with success=true or with success=false; its
\* request times out; its request is rejected by the process exit
CommandOutcomes == {"usage", "success", "failure", "timeout", "exited"}
NoCommand == "none"

\* a command action that throws on a success=false answer
commandAction_FailureThrows(outcome) ==
  CASE outcome = "usage" -> [chunks |-> <<"usage">>, returns |-> TRUE, error |-> "-"]
    [] outcome = "success" -> [chunks |-> <<"done">>, returns |-> TRUE, error |-> "-"]
    [] outcome = "failure" -> [chunks |-> <<>>, returns |-> FALSE, error |-> "Failed"]
    [] outcome = "timeout" -> [chunks |-> <<>>, returns |-> FALSE, error |-> "Pi request timed out"]
    [] OTHER -> [chunks |-> <<>>, returns |-> FALSE, error |-> "pi process exited"]

\* a command action (createCommandActions): the text chunks it sends and
\* whether it returns or throws the rejection of its request
commandAction(outcome) ==
  CASE outcome = "usage" -> [chunks |-> <<"usage">>, returns |-> TRUE, error |-> "-"]
    [] outcome = "success" -> [chunks |-> <<"done">>, returns |-> TRUE, error |-> "-"]
    [] outcome = "failure" -> [chunks |-> <<"failed">>, returns |-> TRUE, error |-> "-"]
    [] outcome = "timeout" -> [chunks |-> <<>>, returns |-> FALSE, error |-> "Pi request timed out"]
    [] OTHER -> [chunks |-> <<>>, returns |-> FALSE, error |-> "pi process exited"]

\* prompt() that goes on to send the prompt after the command action has run
PromptResume_FallsThrough(p, outcome) ==
  /\ promptPc[p] = "await"
  /\ (promptKind[p] = "slash") = (outcome # NoCommand)
  /\ promptKind' = [promptKind EXCEPT ![p] = "-"]
  /\ LET s == promptSession[p] IN
     /\ piInbox' = [piInbox EXCEPT ![s] = Append(@, p)]
     /\ heartbeat' = [heartbeat EXCEPT ![p] = TRUE]
     /\ beats' = [beats EXCEPT ![p] = 1]
     /\ pendingPrompt' = [pendingPrompt EXCEPT ![s] = p]
     /\ promptPc' = [promptPc EXCEPT ![p] = "pending"]
     /\ commandChunks' = [commandChunks EXCEPT ![p] =
                            IF outcome = NoCommand THEN <<>> ELSE commandAction(outcome).chunks]
     /\ UNCHANGED promptResult
  /\ UNCHANGED <<runtimeImpl, alive, promptSession, settleCount, settledBy,
                 piRun, abortsSent, agentEndTasks, turnEnds, agentEndLog>>
  /\ UNCHANGED nonPromptVars

(***************************************************************************)
(* SessionManager.prompt: continuation after `await handleSlashCommand`.   *)
(* For a known command the action has run (outcome says how it ended) and  *)
(* the call returns end_turn or throws what the action threw; otherwise the *)
(* prompt is sent, the heartbeat started and the slot filled.              *)
(***************************************************************************)
PromptResume(p, outcome) ==
  /\ promptPc[p] = "await"
  /\ (promptKind[p] = "slash") = (outcome # NoCommand)
  /\ outcome = "exited" => ~alive[promptSession[p]]
  /\ outcome \in {"success", "failure"} => alive[promptSession[p]]
  /\ promptKind' = [promptKind EXCEPT ![p] = "-"]
  /\ LET s == promptSession[p] IN
     IF promptKind[p] = "slash"
     THEN /\ promptPc' = [promptPc EXCEPT ![p] = "done"]
          /\ promptResult' = [promptResult EXCEPT ![p] =
                                IF commandAction(outcome).returns
                                THEN "end_turn" ELSE commandAction(outcome).error]
          /\ commandChunks' = [commandChunks EXCEPT ![p] = commandAction(outcome).chunks]
          /\ UNCHANGED <<pendingPrompt, piInbox, heartbeat, beats>>
     ELSE /\ piInbox' = [piInbox EXCEPT ![s] = Append(@, p)]
          /\ heartbeat' = [heartbeat EXCEPT ![p] = TRUE]
          /\ beats' = [beats EXCEPT ![p] = 1]
          /\ pendingPrompt' = [pendingPrompt EXCEPT ![s] = p]
          /\ promptPc' = [promptPc EXCEPT ![p] = "pending"]
          /\ UNCHANGED <<promptResult, commandChunks>>
  /\ UNCHANGED <<runtimeImpl, alive, promptSession, settleCount, settledBy,
                 piRun, abortsSent, agentEndTasks, turnEnds, agentEndLog>>
  /\ UNCHANGED nonPromptVars

\* times the intervals have fired so far, over all calls: every call's first
\* notification is sent inline by prompt() and is not a firing
RECURSIVE IntervalFirings(_)
IntervalFirings(n) ==
  IF n = 0 THEN 0
  ELSE IntervalFirings(n - 1) + (IF beats[n] > 0 THEN beats[n] - 1 ELSE 0)

(***************************************************************************)
(* The interval armed by prompt() fires: sendHeartbeat emits one more      *)
(* session_info_update for the call                                        *)
(***************************************************************************)
sendHeartbeat(p) ==
  /\ heartbeat[p]
  /\ IntervalFirings(MaxPrompts) < MaxBeats
  /\ beats' = [beats EXCEPT ![p] = @ + 1]
  /\ UNCHANGED <<runtimeImpl, alive, pendingPrompt, promptSession, promptKind, promptPc,
                 promptResult, settleCount, settledBy, heartbeat, piInbox, piRun,
                 abortsSent, agentEndTasks, turnEnds, agentEndLog, commandChunks>>
  /\ UNCHANGED nonPromptVars

\* cancel that writes the abort and leaves the resolution to the subprocess's events
Cancel_AbortOnly(s) ==
  /\ abortsSent[s] < MaxCancels
  /\ abortsSent' = [abortsSent EXCEPT ![s] = @ + 1]
  /\ NoSettle
  /\ UNCHANGED <<runtimeImpl, alive, pendingPrompt, promptSession, promptKind, piInbox, piRun,
                 agentEndTasks, turnEnds, agentEndLog, commandChunks>>
  /\ UNCHANGED beats
  /\ UNCHANGED nonPromptVars

(***************************************************************************)
(* SessionManager.cancel                                                   *)
(***************************************************************************)
Cancel(s) ==
  /\ abortsSent[s] < MaxCancels
  /\ abortsSent' = [abortsSent EXCEPT ![s] = @ + 1]
  /\ IF pendingPrompt[s] # NoPrompt
     THEN /\ InvokeClosure(pendingPrompt[s], "cancelled", [kind |-> "cancel", tag |-> NoPrompt])
          /\ pendingPrompt' = [pendingPrompt EXCEPT ![s] = NoPrompt]
     ELSE /\ NoSettle
          /\ UNCHANGED pendingPrompt
  /\ UNCHANGED <<runtimeImpl, alive, promptSession, promptKind, piInbox, piRun,
                 agentEndTasks, turnEnds, agentEndLog, commandChunks>>
  /\ UNCHANGED beats
  /\ UNCHANGED nonPromptVars

(***************************************************************************)
(* The subprocess picks the next prompt command up from its stdin          *)
(***************************************************************************)
PiTakePrompt(s) ==
  /\ alive[s]
  /\ piRun[s] = NoPrompt
  /\ piInbox[s] # <<>>
  /\ piRun' = [piRun EXCEPT ![s] = Head(piInbox[s])]
  /\ piInbox' = [piInbox EXCEPT ![s] = Tail(@)]
  /\ UNCHANGED <<runtimeImpl, alive, pendingPrompt, promptSession, promptKind, promptPc,
                 promptResult, settleCount, settledBy, heartbeat, abortsSent,
                 agentEndTasks, turnEnds, agentEndLog, commandChunks>>
  /\ UNCHANGED beats
  /\ UNCHANGED nonPromptVars

(***************************************************************************)
(* SessionRuntime.handleTurnEnd                                            *)
(***************************************************************************)
handleTurnEnd(s, reason, tag) ==
  IF runtimeImpl = "runtime_ts"
  THEN resolvePendingPrompt(s, mapStopReason(reason), [kind |-> "turn_end", tag |-> tag])
  ELSE NoSettle /\ UNCHANGED pendingPrompt

(***************************************************************************)
(* SessionRuntime.handlePiLine for an event line of session s.  The line   *)
(* is one the subprocess emits while working on prompt piRun[s].           *)
(***************************************************************************)
handlePiLine(s, type, reason) ==
  /\ alive[s]
  /\ piRun[s] # NoPrompt
  /\ CASE type = "turn_end" ->
            /\ turnEnds[s] < MaxTurns
            /\ turnEnds' = [turnEnds EXCEPT ![s] = @ + 1]
            /\ handleTurnEnd(s, reason, piRun[s])
            /\ UNCHANGED <<piRun, agentEndTasks, agentEndLog>>
       [] type = "agent_end" ->
            /\ piRun' = [piRun EXCEPT ![s] = NoPrompt]
            /\ turnEnds' = [turnEnds EXCEPT ![s] = 0]
            /\ IF runtimeImpl = "runtime_ts"
               THEN /\ resolvePendingPrompt(s, "end_turn", [kind |-> "agent_end", tag |-> piRun[s]])
                    /\ agentEndLog' = [agentEndLog EXCEPT ![s] =
                                          <<"none">> \o agentEndEffects(NoSummary, pendingPrompt[s] # NoPrompt)]
                    /\ UNCHANGED agentEndTasks
               ELSE /\ agentEndTasks' = [agentEndTasks EXCEPT ![s] = Append(@, piRun[s])]
                    /\ UNCHANGED agentEndLog
                    /\ NoSettle
                    /\ UNCHANGED pendingPrompt
       [] OTHER ->
            /\ NoSettle
            /\ UNCHANGED <<pendingPrompt, piRun, agentEndTasks, turnEnds, agentEndLog, commandChunks>>
  /\ UNCHANGED <<runtimeImpl, alive, promptSession, promptKind, piInbox, abortsSent,
                 commandChunks>>
  /\ UNCHANGED beats
  /\ UNCHANGED nonPromptVars

\* handleAgentEnd around a getSummary that lets the request's rejection
\* through: the call ends at the await and the prompt is not resolved
handleAgentEnd_SummaryThrows(s, outcome) ==
  /\ agentEndTasks[s] # <<>>
  /\ (outcome = "exited") = ~alive[s]
  /\ IF outcome \in {"timeout", "exited"}
     THEN /\ agentEndLog' = [agentEndLog EXCEPT ![s] = <<outcome>>]
          /\ NoSettle
          /\ UNCHANGED pendingPrompt
     ELSE /\ agentEndLog' = [agentEndLog EXCEPT ![s] =
                 <<outcome>> \o agentEndEffects(getSummary(outcome), pendingPrompt[s] # NoPrompt)]
          /\ resolvePendingPrompt(s, "end_turn", [kind |-> "agent_end", tag |-> Head(agentEndTasks[s])])
  /\ agentEndTasks' = [agentEndTasks EXCEPT ![s] = Tail(@)]
  /\ UNCHANGED <<runtimeImpl, alive, promptSession, promptKind, piInbox, piRun,
                 abortsSent, turnEnds, commandChunks>>
  /\ UNCHANGED beats
  /\ UNCHANGED nonPromptVars

(***************************************************************************)
(* SessionRuntime.handleAgentEnd: continuation after `await getSummary`.   *)
(* Its get_session_stats request was answered with statistics that give a  *)
(* summary line, with statistics that give none, or with success=false; or *)
(* it timed out; or the exit handler rejected it.                          *)
(***************************************************************************)
handleAgentEnd(s, outcome) ==
  /\ agentEndTasks[s] # <<>>
  /\ (outcome = "exited") = ~alive[s]
  /\ agentEndLog' = [agentEndLog EXCEPT ![s] =
                       <<outcome>> \o agentEndEffects(getSummary(outcome), pendingPrompt[s] # NoPrompt)]
  /\ resolvePendingPrompt(s, "end_turn", [kind |-> "agent_end", tag |-> Head(agentEndTasks[s])])
  /\ agentEndTasks' = [agentEndTasks EXCEPT ![s] = Tail(@)]
  /\ UNCHANGED <<runtimeImpl, alive, promptSession, promptKind, piInbox, piRun,
                 abortsSent, turnEnds, commandChunks>>
  /\ UNCHANGED beats
  /\ UNCHANGED nonPromptVars

(***************************************************************************)
(* PiProcess 'error' event -> errorListeners -> spawnSession's onError     *)
(***************************************************************************)
onError(s) ==
  /\ alive[s]
  /\ IF pendingPrompt[s] # NoPrompt
     THEN /\ InvokeClosure(pendingPrompt[s], "error", [kind |-> "error", tag |-> NoPrompt])
          /\ pendingPrompt' = [pendingPrompt EXCEPT ![s] = NoPrompt]
     ELSE /\ NoSettle
          /\ UNCHANGED pendingPrompt
  /\ UNCHANGED <<runtimeImpl, alive, promptSession, promptKind, piInbox, piRun,
                 abortsSent, agentEndTasks, turnEnds, agentEndLog, commandChunks>>
  /\ UNCHANGED beats
  /\ UNCHANGED nonPromptVars

(***************************************************************************)
(* PiProcess 'exit' event: rejectAllPending only.  The requests of the     *)
(* suspended handleAgentEnd calls are rejected, so those calls resume      *)
(* later; the error listeners are not called.                              *)
(***************************************************************************)
onExit(s) ==
  /\ alive[s]
  /\ alive' = [alive EXCEPT ![s] = FALSE]
  /\ UNCHANGED <<runtimeImpl, pendingPrompt, promptSession, promptKind, promptPc,
                 promptResult, settleCount, settledBy, heartbeat, piInbox, piRun,
                 abortsSent, agentEndTasks, turnEnds, agentEndLog, commandChunks>>
  /\ UNCHANGED beats
  /\ UNCHANGED nonPromptVars

(***************************************************************************)
(* PiProcess: request / response correlation over one stdio channel        *)
(***************************************************************************)
Calls == 1..MaxRequests
NoId == 0
\* ids a response line can carry: none (0), an issued id, or one never issued
ResponseIds == 0..(MaxRequests + 1)
\* a response object, an event object, text JSON.parse rejects, the text `null`
LineTypes == {"response", "event", "garbage", "null"}

EmptyMap == <<>>
MapDelete(f, k) == [x \in (DOMAIN f) \ {k} |-> f[x]]
MapSet(f, k, v) == [x \in (DOMAIN f) \cup {k} |-> IF x = k THEN v ELSE f[x]]
MapValues(f) == {f[x] : x \in DOMAIN f}

\* resolve(...) / reject(...) of the promise made by request(): the first call decides
SettleRequests(cs, outcome) ==
  /\ reqOutcome' = [c \in Calls |-> IF c \in cs /\ reqOutcome[c] = "pending" THEN outcome ELSE reqOutcome[c]]
  /\ reqSettles' = [c \in Calls |-> IF c \in cs THEN reqSettles[c] + 1 ELSE reqSettles[c]]

\* a stale id: the counter is read without being advanced
freshId_Stale == IF requestCounter = 0 THEN 1 ELSE requestCounter

\* `req_${++this.requestCounter}`
freshId == requestCounter + 1

(***************************************************************************)
(* PiProcess.request                                                       *)
(***************************************************************************)
request(c) ==
  /\ reqId[c] = NoId
  /\ \A d \in Calls : d < c => reqId[d] # NoId
  /\ requestCounter' = freshId
  /\ reqId' = [reqId EXCEPT ![c] = freshId]
  /\ reqOutcome' = [reqOutcome EXCEPT ![c] = "pending"]
  /\ timers' = timers \cup {c}
  /\ pendingRequests' = MapSet(pendingRequests, freshId, c)
  /\ UNCHANGED <<exited, reqSettles>>
  /\ UNCHANGED deliveryVars
  /\ UNCHANGED nonProcVars

\* logError(`failed to parse pi rpc line: ...`) for a JSON syntax error
ParseFailure == "failed to parse pi rpc line"

\* a handler that hands the raw text of an unparsable line to the listeners
forEachListener_DeliversUnparsed(type, thrower) ==
  /\ delivered' = [k \in 1..(IF thrower = 0 THEN listeners ELSE thrower) |-> k]
  /\ errorLog' = IF type = "garbage" THEN errorLog \cup {ParseFailure} ELSE errorLog
  /\ UNCHANGED listeners

\* this.listeners.forEach((listener) => listener(parsed)) inside the try block:
\* JSON.parse throws on text that is no JSON, `parsed.type` throws on null, and
\* a listener that throws ends the forEach (thrower = 0: no listener throws);
\* the catch block logs the line JSON.parse rejected and drops it
forEachListener(type, thrower) ==
  /\ delivered' = IF type \in {"garbage", "null"} THEN <<>>
                  ELSE [k \in 1..(IF thrower = 0 THEN listeners ELSE thrower) |-> k]
  /\ errorLog' = IF type = "garbage" THEN errorLog \cup {ParseFailure} ELSE errorLog
  /\ UNCHANGED listeners

(***************************************************************************)
(* PiProcess.onLine(listener): this.listeners.push(listener)               *)
(***************************************************************************)
onLineListener ==
  /\ listeners < MaxListeners
  /\ listeners' = listeners + 1
  /\ UNCHANGED <<exited, requestCounter, pendingRequests, timers, reqId, reqOutcome,
                 reqSettles, delivered, errorLog>>
  /\ UNCHANGED nonProcVars

\* a line handler that hands a response to the oldest pending request, whatever its id
onLine_AnyPending(type, id, success) ==
  /\ IF type = "response" /\ id # NoId /\ pendingRequests # EmptyMap
     THEN LET k == CHOOSE x \in DOMAIN pendingRequests : \A y \in DOMAIN pendingRequests : x <= y
              c == pendingRequests[k]
          IN  /\ timers' = timers \ {c}
              /\ pendingRequests' = MapDelete(pendingRequests, k)
              /\ SettleRequests({c}, IF success THEN "resolved_success" ELSE "resolved_failure")
     ELSE UNCHANGED <<timers, pendingRequests, reqOutcome, reqSettles>>
  /\ \E thrower \in 0..listeners : forEachListener(type, thrower)
  /\ UNCHANGED <<exited, requestCounter, reqId>>
  /\ UNCHANGED nonProcVars

\* a line handler that settles the request and leaves its timer armed
onLine_KeepsTimer(type, id, success) ==
  /\ IF type = "response" /\ id # NoId /\ id \in DOMAIN pendingRequests
     THEN LET c == pendingRequests[id]
          IN  /\ UNCHANGED timers
              /\ pendingRequests' = MapDelete(pendingRequests, id)
              /\ SettleRequests({c}, IF success THEN "resolved_success" ELSE "resolved_failure")
     ELSE UNCHANGED <<timers, pendingRequests, reqOutcome, reqSettles>>
  /\ \E thrower \in 0..listeners : forEachListener(type, thrower)
  /\ UNCHANGED <<exited, requestCounter, reqId>>
  /\ UNCHANGED nonProcVars

\* a line handler that resolves the request and leaves its entry in the map
onLine_KeepsEntry(type, id, success) ==
  /\ IF type = "response" /\ id # NoId /\ id \in DOMAIN pendingRequests
     THEN LET c == pendingRequests[id]
          IN  /\ timers' = timers \ {c}
              /\ UNCHANGED pendingRequests
              /\ SettleRequests({c}, IF success THEN "resolved_success" ELSE "resolved_failure")
     ELSE UNCHANGED <<timers, pendingRequests, reqOutcome, reqSettles>>
  /\ \E thrower \in 0..listeners : forEachListener(type, thrower)
  /\ UNCHANGED <<exited, requestCounter, reqId>>
  /\ UNCHANGED nonProcVars

(***************************************************************************)
(* PiProcess readline "line" handler.  A line that does not parse is       *)
(* dropped; an event goes to the listeners only; a response whose id is    *)
(* pending clears that request's timer, removes it and resolves its        *)
(* promise with the response (whatever its success flag).                  *)
(***************************************************************************)
onLine(type, id, success) ==
  /\ IF type = "response" /\ id # NoId /\ id \in DOMAIN pendingRequests
     THEN LET c == pendingRequests[id]
          IN  /\ timers' = timers \ {c}
              /\ pendingRequests' = MapDelete(pendingRequests, id)
              /\ SettleRequests({c}, IF success THEN "resolved_success" ELSE "resolved_failure")
     ELSE UNCHANGED <<timers, pendingRequests, reqOutcome, reqSettles>>
  /\ \E thrower \in 0..listeners : forEachListener(type, thrower)
  /\ UNCHANGED <<exited, requestCounter, reqId>>
  /\ UNCHANGED nonProcVars

\* a timeout callback that rejects and leaves the entry in the map
onTimeout_KeepsEntry(c) ==
  /\ c \in timers
  /\ timers' = timers \ {c}
  /\ SettleRequests({c}, "timeout")
  /\ UNCHANGED <<exited, requestCounter, reqId, pendingRequests>>
  /\ UNCHANGED deliveryVars
  /\ UNCHANGED nonProcVars

\* a timeout callback that gives up on the subprocess: it kills it and
\* rejects every pending request
onTimeout_KillsProcess(c) ==
  /\ c \in timers
  /\ timers' = {}
  /\ pendingRequests' = EmptyMap
  /\ SettleRequests(MapValues(pendingRequests), "timeout")
  /\ exited' = TRUE
  /\ UNCHANGED <<requestCounter, reqId>>
  /\ UNCHANGED deliveryVars
  /\ UNCHANGED nonProcVars

(***************************************************************************)
(* The setTimeout callback of request(): fires only while armed            *)
(***************************************************************************)
onTimeout(c) ==
  /\ c \in timers
  /\ timers' = timers \ {c}
  /\ pendingRequests' = MapDelete(pendingRequests, reqId[c])
  /\ SettleRequests({c}, "timeout")
  /\ UNCHANGED <<exited, requestCounter, reqId>>
  /\ UNCHANGED deliveryVars
  /\ UNCHANGED nonProcVars

\* rejectAllPending without clearTimeout
rejectAllPending_TimersLeft ==
  /\ UNCHANGED timers
  /\ SettleRequests(MapValues(pendingRequests), "exited")
  /\ pendingRequests' = EmptyMap

\* PiProcess.rejectAllPending
rejectAllPending ==
  /\ timers' = timers \ MapValues(pendingRequests)
  /\ SettleRequests(MapValues(pendingRequests), "exited")
  /\ pendingRequests' = EmptyMap

(***************************************************************************)
(* PiProcess proc.on("exit")                                               *)
(***************************************************************************)
procOnExit ==
  /\ ~exited
  /\ exited' = TRUE
  /\ rejectAllPending
  /\ UNCHANGED <<requestCounter, reqId>>
  /\ UNCHANGED deliveryVars
  /\ UNCHANGED nonProcVars

ProcInit ==
  /\ exited = FALSE
  /\ requestCounter = 0
  /\ pendingRequests = EmptyMap
  /\ timers = {}
  /\ reqId = [c \in Calls |-> NoId]
  /\ reqOutcome = [c \in Calls |-> "none"]
  /\ reqSettles = [c \in Calls |-> 0]
  /\ listeners = 0
  /\ delivered = <<>>
  /\ errorLog = {}

(***************************************************************************)
(* SessionToolHandler: input summaries, file snapshots and diffs           *)
(***************************************************************************)
ToolCallIds == {"t1", "t2"}
NoPath == "-"
\* values of the path argument of a tool call: none, absolute, relative
ArgPaths == {NoPath, "/cwd/f.txt", "f.txt"}
AbsPaths == {"/cwd/f.txt"}
Missing == "ENOENT"
Texts == {"old", "new"}
NoDiff == [type |-> "none"]

\* snapshotFile: `filePath.startsWith("/") ? filePath : nodePath.resolve(session.cwd, filePath)`
ResolvePath(filePath) ==
  IF filePath = "f.txt" THEN "/cwd/f.txt" ELSE filePath

\* SessionToolHandler.readTextFileSync
readTextFileSync(path) == files[path]

\* buildDiffContent without the comparison of old and new text
buildDiffContent_NoCompare(toolCallId) ==
  IF toolCallId \notin DOMAIN toolCallSnapshots
  THEN NoDiff
  ELSE LET snapshot == toolCallSnapshots[toolCallId]
           newText == readTextFileSync(snapshot.path)
       IN  IF newText = Missing THEN NoDiff
           ELSE [type |-> "diff", path |-> snapshot.path,
                 oldText |-> snapshot.oldText, newText |-> newText]

\* SessionToolHandler.buildDiffContent: the value it returns
\* (its deletion of the snapshot entry is part of handleEnd below)
buildDiffContent(toolCallId) ==
  IF toolCallId \notin DOMAIN toolCallSnapshots
  THEN NoDiff
  ELSE LET snapshot == toolCallSnapshots[toolCallId]
           newText == readTextFileSync(snapshot.path)
       IN  IF newText = Missing THEN NoDiff
           ELSE IF snapshot.oldText = newText THEN NoDiff
           ELSE [type |-> "diff", path |-> snapshot.path,
                 oldText |-> snapshot.oldText, newText |-> newText]

\* buildDiffContent: the warnings readTextFileSync logs, one when a snapshot
\* is held and the re-read of its file fails
readFailed(toolCallId) ==
  IF /\ toolCallId \in DOMAIN toolCallSnapshots
     /\ readTextFileSync(toolCallSnapshots[toolCallId].path) = Missing
  THEN 1 ELSE 0

\* handleStart that takes the snapshot before it announces the tool call
handleStart_SnapshotFirst(toolCallId, argPath) ==
  /\ nToolEvents < MaxToolEvents
  /\ nToolEvents' = nToolEvents + 1
  /\ toolCallInputs' = toolCallInputs \cup {toolCallId}
  /\ emitted' = IF argPath = NoPath
                THEN Append(emitted, [sessionUpdate |-> "tool_call", toolCallId |-> toolCallId,
                                      status |-> "pending", diff |-> NoDiff])
                ELSE emitted
  /\ snapshotReads' =
       IF argPath = NoPath THEN snapshotReads
       ELSE snapshotReads \cup {[id |-> toolCallId, path |-> ResolvePath(argPath), text |-> "unread"]}
  /\ UNCHANGED <<toolCallSnapshots, files>>
  /\ toolEvents' = Append(toolEvents, [type |-> "tool_execution_start", toolCallId |-> toolCallId])
  /\ UNCHANGED readWarnings
  /\ UNCHANGED nonToolVars

(***************************************************************************)
(* SessionToolHandler.handleStart up to `await this.snapshotFile(...)`     *)
(***************************************************************************)
handleStart(toolCallId, argPath) ==
  /\ nToolEvents < MaxToolEvents
  /\ nToolEvents' = nToolEvents + 1
  /\ toolCallInputs' = toolCallInputs \cup {toolCallId}
  /\ emitted' = Append(emitted, [sessionUpdate |-> "tool_call", toolCallId |-> toolCallId,
                                 status |-> "pending", diff |-> NoDiff])
  /\ snapshotReads' =
       IF argPath = NoPath THEN snapshotReads
       ELSE snapshotReads \cup {[id |-> toolCallId, path |-> ResolvePath(argPath), text |-> "unread"]}
  /\ UNCHANGED <<toolCallSnapshots, files>>
  /\ toolEvents' = Append(toolEvents, [type |-> "tool_execution_start", toolCallId |-> toolCallId])
  /\ UNCHANGED readWarnings
  /\ UNCHANGED nonToolVars

(***************************************************************************)
(* SessionToolHandler.snapshotFile: readFile performs the read             *)
(***************************************************************************)
snapshotFileRead(task) ==
  /\ task \in snapshotReads
  /\ task.text = "unread"
  /\ snapshotReads' = (snapshotReads \ {task}) \cup {[task EXCEPT !.text = files[task.path]]}
  /\ UNCHANGED <<toolCallInputs, toolCallSnapshots, files, emitted, nToolEvents>>
  /\ UNCHANGED <<toolEvents, readWarnings>>
  /\ UNCHANGED nonToolVars

(***************************************************************************)
(* SessionToolHandler.snapshotFile: continuation after `await readFile`    *)
(***************************************************************************)
snapshotFileDone(task) ==
  /\ task \in snapshotReads
  /\ task.text # "unread"
  /\ snapshotReads' = snapshotReads \ {task}
  /\ toolCallSnapshots' =
       IF task.text = Missing THEN toolCallSnapshots
       ELSE MapSet(toolCallSnapshots, task.id, [path |-> task.path, oldText |-> task.text])
  /\ UNCHANGED <<toolCallInputs, files, emitted, nToolEvents>>
  /\ UNCHANGED <<toolEvents, readWarnings>>
  /\ UNCHANGED nonToolVars

(***************************************************************************)
(* SessionToolHandler.handleUpdate                                         *)
(***************************************************************************)
handleUpdate(toolCallId) ==
  /\ nToolEvents < MaxToolEvents
  /\ nToolEvents' = nToolEvents + 1
  /\ emitted' = Append(emitted, [sessionUpdate |-> "tool_call_update", toolCallId |-> toolCallId,
                                 status |-> "in_progress", diff |-> NoDiff])
  /\ UNCHANGED <<toolCallInputs, toolCallSnapshots, files, snapshotReads>>
  /\ toolEvents' = Append(toolEvents, [type |-> "tool_execution_update", toolCallId |-> toolCallId])
  /\ UNCHANGED readWarnings
  /\ UNCHANGED nonToolVars

\* handleEnd that reports a tool call as failed when its file cannot be re-read
handleEnd_FailedOnMissing(toolCallId, isError) ==
  /\ nToolEvents < MaxToolEvents
  /\ nToolEvents' = nToolEvents + 1
  /\ toolCallInputs' = toolCallInputs \ {toolCallId}
  /\ toolCallSnapshots' = MapDelete(toolCallSnapshots, toolCallId)
  /\ emitted' = Append(emitted, [sessionUpdate |-> "tool_call_update", toolCallId |-> toolCallId,
                                 status |-> IF isError \/ readFailed(toolCallId) = 1
                                            THEN "failed" ELSE "completed",
                                 diff |-> buildDiffContent(toolCallId)])
  /\ UNCHANGED <<files, snapshotReads>>
  /\ toolEvents' = Append(toolEvents, [type |-> "tool_execution_end", toolCallId |-> toolCallId])
  /\ readWarnings' = readWarnings + readFailed(toolCallId)
  /\ UNCHANGED nonToolVars

(***************************************************************************)
(* SessionToolHandler.handleEnd                                            *)
(***************************************************************************)
handleEnd(toolCallId, isError) ==
  /\ nToolEvents < MaxToolEvents
  /\ nToolEvents' = nToolEvents + 1
  /\ toolCallInputs' = toolCallInputs \ {toolCallId}
  /\ toolCallSnapshots' = MapDelete(toolCallSnapshots, toolCallId)
  /\ emitted' = Append(emitted, [sessionUpdate |-> "tool_call_update", toolCallId |-> toolCallId,
                                 status |-> IF isError THEN "failed" ELSE "completed",
                                 diff |-> buildDiffContent(toolCallId)])
  /\ UNCHANGED <<files, snapshotReads>>
  /\ toolEvents' = Append(toolEvents, [type |-> "tool_execution_end", toolCallId |-> toolCallId])
  /\ readWarnings' = readWarnings + readFailed(toolCallId)
  /\ UNCHANGED nonToolVars

(***************************************************************************)
(* The tool (or anything else) writes or deletes the file                  *)
(***************************************************************************)
FileChange(path, text) ==
  /\ files[path] # text
  /\ files' = [files EXCEPT ![path] = text]
  /\ UNCHANGED <<toolCallInputs, toolCallSnapshots, snapshotReads, emitted, nToolEvents>>
  /\ UNCHANGED <<toolEvents, readWarnings>>
  /\ UNCHANGED nonToolVars

ToolInit ==
  /\ toolCallInputs = {}
  /\ toolCallSnapshots = EmptyMap
  /\ files \in [AbsPaths -> Texts \cup {Missing}]
  /\ snapshotReads = {}
  /\ emitted = <<>>
  /\ nToolEvents = 0
  /\ toolEvents = <<>>
  /\ readWarnings = 0

ToolIdle ==
  /\ toolCallInputs = {}
  /\ toolCallSnapshots = EmptyMap
  /\ files = [path \in AbsPaths |-> Missing]
  /\ snapshotReads = {}
  /\ emitted = <<>>
  /\ nToolEvents = 0
  /\ toolEvents = <<>>
  /\ readWarnings = 0

(***************************************************************************)
(* Line routing: PiProcess line handler -> SessionRuntime.handlePiLine     *)
(***************************************************************************)
Deltas == {"", "a"}
AssistantEventTypes == {"none", "text_delta", "thinking_delta", "toolcall_delta"}
\* a stdout line: blank, not JSON, or a JSON event
StdoutLines ==
  {[kind |-> "blank", type |-> "-", ame |-> "none", delta |-> ""],
   [kind |-> "garbage", type |-> "-", ame |-> "none", delta |-> ""],
   [kind |-> "json", type |-> "response", ame |-> "none", delta |-> ""],
   [kind |-> "json", type |-> "turn_start", ame |-> "none", delta |-> ""],
   [kind |-> "json", type |-> "agent_end", ame |-> "none", delta |-> ""],
   [kind |-> "json", type |-> "message_update", ame |-> "none", delta |-> ""],
   [kind |-> "json", type |-> "message_update", ame |-> "toolcall_delta", delta |-> ""]}
  \cup [kind : {"json"}, type : {"message_update"},
        ame : {"text_delta", "thinking_delta"}, delta : Deltas]

\* cause of a chunk that no message_update produced (the agent_end summary)
NoCause == 0

\* SessionRuntime.emitText
emitText(sessionUpdate, text, cause) ==
  <<[sessionUpdate |-> sessionUpdate, text |-> text, cause |-> cause]>>

\* handleMessageUpdate that reports thinking deltas as message chunks
handleMessageUpdate_ThoughtAsMessage(event, cause) ==
  IF event.ame = "none" THEN <<>>
  ELSE IF event.ame \in {"text_delta", "thinking_delta"}
       THEN emitText("agent_message_chunk", event.delta, cause)
  ELSE <<>>

\* SessionRuntime.handleMessageUpdate: the updates it emits
handleMessageUpdate(event, cause) ==
  IF event.ame = "none" THEN <<>>
  ELSE IF event.ame = "text_delta" THEN emitText("agent_message_chunk", event.delta, cause)
  ELSE IF event.ame = "thinking_delta" THEN emitText("agent_thought_chunk", event.delta, cause)
  ELSE <<>>

(***************************************************************************)
(* The subprocess writes one more line to stdout                           *)
(***************************************************************************)
PiWriteLine(line) ==
  /\ Len(piSent) < MaxLines
  /\ piSent' = Append(piSent, line)
  /\ UNCHANGED <<handledLines, nRead, chunks, summaryTasks>>
  /\ UNCHANGED nonLineVars

(***************************************************************************)
(* readline delivers the next line: PiProcess line handler, the session's  *)
(* onLine listener, and SessionRuntime.handlePiLine, all synchronous       *)
(***************************************************************************)
routeLine ==
  /\ nRead < Len(piSent)
  /\ nRead' = nRead + 1
  /\ LET line == piSent[nRead + 1]
     IN  IF line.kind # "json"
         THEN UNCHANGED <<handledLines, chunks, summaryTasks>>
         ELSE /\ handledLines' = Append(handledLines, nRead + 1)
              /\ chunks' = IF line.type = "message_update"
                           THEN chunks \o handleMessageUpdate(line, nRead + 1)
                           ELSE chunks
              /\ summaryTasks' = IF line.type = "agent_end"
                                 THEN summaryTasks + 1 ELSE summaryTasks
  /\ UNCHANGED piSent
  /\ UNCHANGED nonLineVars

(***************************************************************************)
(* handleAgentEnd resumes from `await getSummary` and emits the summary    *)
(***************************************************************************)
emitSummary(hasSummary) ==
  /\ summaryTasks > 0
  /\ summaryTasks' = summaryTasks - 1
  /\ chunks' = IF hasSummary
               THEN chunks \o emitText("agent_message_chunk", "summary", NoCause)
               ELSE chunks
  /\ UNCHANGED <<piSent, handledLines, nRead>>
  /\ UNCHANGED nonLineVars

LineInit ==
  /\ piSent = <<>>
  /\ handledLines = <<>>
  /\ nRead = 0
  /\ chunks = <<>>
  /\ summaryTasks = 0

(***************************************************************************)
(* Model identifiers.  A string is a sequence of tokens; ":" and "/" are   *)
(* the separator characters, every other token is a run of other chars.    *)
(***************************************************************************)
Colon == ":"
Slash == "/"

RECURSIVE Split(_, _)
\* String.prototype.split(sep): the parts between the separators
Split(str, sep) ==
  IF \A i \in 1..Len(str) : str[i] # sep
  THEN <<str>>
  ELSE LET k == CHOOSE i \in 1..Len(str) :
                  /\ str[i] = sep
                  /\ \A j \in 1..(i - 1) : str[j] # sep
       IN  <<SubSeq(str, 1, k - 1)>> \o Split(SubSeq(str, k + 1, Len(str)), sep)

RECURSIVE Join(_, _)
\* Array.prototype.join(sep)
Join(parts, sep) ==
  IF Len(parts) = 0 THEN <<>>
  ELSE IF Len(parts) = 1 THEN parts[1]
  ELSE parts[1] \o <<sep>> \o Join(Tail(parts), sep)

\* encodeModelId: `${model.provider}:${model.id}`
encodeModelId(model) == model.provider \o <<Colon>> \o model.id

NoModel == [id |-> <<>>, provider |-> <<>>, name |-> <<>>]

\* session.modelMap is a Map: a sequence of [key, value] entries with
\* distinct keys, in insertion order
ModelMapHas(map, key) == \E i \in 1..Len(map) : map[i].key = key

\* Map.prototype.get
ModelMapGet(map, key) ==
  IF ModelMapHas(map, key)
  THEN map[CHOOSE i \in 1..Len(map) : map[i].key = key].value
  ELSE NoModel

\* Map.prototype.set: an existing key keeps its position
ModelMapSet(map, key, model) ==
  IF ModelMapHas(map, key)
  THEN [i \in 1..Len(map) |->
          IF map[i].key = key THEN [key |-> key, value |-> model] ELSE map[i]]
  ELSE Append(map, [key |-> key, value |-> model])

RECURSIVE BuildModelMap(_)
\* refreshSessionConfig: modelMap.clear(), then set(encodeModelId(model), model) for each
BuildModelMap(availableModels) ==
  IF Len(availableModels) = 0 THEN <<>>
  ELSE LET n == Len(availableModels)
       IN  ModelMapSet(BuildModelMap(SubSeq(availableModels, 1, n - 1)),
                       encodeModelId(availableModels[n]), availableModels[n])

\* resolveModelId, last step: the first registered model whose id equals the input
FirstById(map, modelId) ==
  LET hits == {i \in 1..Len(map) : map[i].value.id = modelId}
  IN  IF hits = {} THEN NoModel
      ELSE map[CHOOSE i \in hits : \A h \in hits : i <= h].value

\* resolveModelId
resolveModelId(map, modelId) ==
  IF ModelMapHas(map, modelId) THEN ModelMapGet(map, modelId)
  ELSE LET colonParts == Split(modelId, Colon)
           slashParts == Split(modelId, Slash)
       IN  IF Len(colonParts) >= 2
           THEN [id |-> Join(Tail(colonParts), Colon), provider |-> colonParts[1],
                 name |-> Join(Tail(colonParts), Colon)]
           ELSE IF Len(slashParts) >= 2
           THEN [id |-> Join(Tail(slashParts), Slash), provider |-> slashParts[1],
                 name |-> Join(Tail(slashParts), Slash)]
           ELSE FirstById(map, modelId)

(***************************************************************************)
(* SessionManager.setModel / setConfigOption and refreshSessionConfig      *)
(***************************************************************************)
\* session ids a caller may name: the live one and one that is not live
SessionIdInputs == Sessions \cup {"ghost"}
Toggles == {"auto_compaction", "auto_retry"}
\* thinking_level, steering_mode and follow_up_mode follow the same
\* request-then-refresh pattern as the toggles and are not distinguished
ConfigIdInputs == Toggles \cup {"model", "bogus"}
Undef == "undefined"

OpenAiGpt == [id |-> <<"gpt-5">>, provider |-> <<"openai">>, name |-> <<"GPT-5">>]
OllamaLlama == [id |-> <<"llama3", Colon, "8b">>, provider |-> <<"ollama">>, name |-> <<"Llama">>]
\* get_available_models of the subprocess
PiModels == <<OpenAiGpt, OllamaLlama>>

ModelIdInputs ==
  {<<"openai", Colon, "gpt-5">>, <<"openai", Slash, "gpt-5">>, <<"gpt-5">>,
   <<"nope">>, <<"nope", Colon, "x">>}
ValueInputs == {<<"on">>, <<"off">>} \cup ModelIdInputs

NoCall == [pc |-> "idle"]

\* request type of setToggleOption for each option
ToggleRequestType(configId) ==
  IF configId = "auto_compaction" THEN "set_auto_compaction" ELSE "set_auto_retry"

\* getSession
getSession(sessionId) == IF sessionId \in Sessions THEN sessionId ELSE Undef

\* setModel after getSession: resolve, then request set_model
StartSetModel(modelId) ==
  LET resolved == resolveModelId(modelMap, modelId)
  IN  IF resolved = NoModel
      THEN /\ cfgResults' = Append(cfgResults, "Unknown model")
           /\ UNCHANGED <<cfgCall, piWritten>>
      ELSE /\ piWritten' = Append(piWritten, [type |-> "set_model", provider |-> resolved.provider,
                                              modelId |-> resolved.id])
           /\ cfgCall' = [pc |-> "awaitSet", op |-> "model", configId |-> "model",
                          value |-> modelId, model |-> resolved]
           /\ UNCHANGED cfgResults

(***************************************************************************)
(* SessionManager.setModel up to its first await                           *)
(***************************************************************************)
setModel(sessionId, modelId) ==
  /\ cfgCall = NoCall
  /\ nCfgCalls < MaxCfgCalls
  /\ nCfgCalls' = nCfgCalls + 1
  /\ IF getSession(sessionId) = Undef
     THEN /\ cfgResults' = Append(cfgResults, "Unknown session")
          /\ UNCHANGED <<cfgCall, piWritten>>
     ELSE StartSetModel(modelId)
  /\ UNCHANGED <<piToggles, piModel, sessToggles, modelMap, broadcasts>>
  /\ UNCHANGED nonCfgVars

(***************************************************************************)
(* SessionManager.setConfigOption up to its first await                    *)
(***************************************************************************)
setConfigOption(sessionId, configId, value) ==
  /\ cfgCall = NoCall
  /\ nCfgCalls < MaxCfgCalls
  /\ nCfgCalls' = nCfgCalls + 1
  /\ IF getSession(sessionId) = Undef
     THEN /\ cfgResults' = Append(cfgResults, "Unknown session")
          /\ UNCHANGED <<cfgCall, piWritten>>
     ELSE IF configId \in Toggles
     THEN /\ piWritten' = Append(piWritten, [type |-> ToggleRequestType(configId),
                                             enabled |-> (value = <<"on">>)])
          /\ cfgCall' = [pc |-> "awaitSet", op |-> "toggle", configId |-> configId,
                         value |-> value, model |-> NoModel]
          /\ UNCHANGED cfgResults
     ELSE IF configId = "model"
     THEN StartSetModel(value)
     ELSE /\ cfgResults' = Append(cfgResults, "Unknown config option")
          /\ UNCHANGED <<cfgCall, piWritten>>
  /\ UNCHANGED <<piToggles, piModel, sessToggles, modelMap, broadcasts>>
  /\ UNCHANGED nonCfgVars

\* the subprocess knows the model named by a set_model command
PiKnows(model) ==
  \E i \in 1..Len(PiModels) : PiModels[i].id = model.id /\ PiModels[i].provider = model.provider

\* the subprocess applies the command of the call in progress
PiApply ==
  IF cfgCall.op = "toggle"
  THEN /\ piToggles' = [piToggles EXCEPT ![cfgCall.configId] = (cfgCall.value = <<"on">>)]
       /\ UNCHANGED piModel
  ELSE /\ piModel' = PiModels[CHOOSE i \in 1..Len(PiModels) :
                                 /\ PiModels[i].id = cfgCall.model.id
                                 /\ PiModels[i].provider = cfgCall.model.provider]
       /\ UNCHANGED piToggles

\* setResponse resuming a failed mutation as if it had succeeded
setResponse_RefreshesOnFailure(outcome, applied) ==
  /\ cfgCall # NoCall
  /\ cfgCall.pc = "awaitSet"
  /\ IF outcome = "ok"
     THEN /\ applied
          /\ cfgCall.op = "model" => PiKnows(cfgCall.model)
          /\ PiApply
          /\ piWritten' = piWritten \o <<[type |-> "get_state"], [type |-> "get_available_models"]>>
          /\ cfgCall' = [cfgCall EXCEPT !.pc = "awaitRefresh"]
          /\ UNCHANGED cfgResults
     ELSE IF outcome = "error"
     THEN /\ ~applied
          /\ piWritten' = piWritten \o <<[type |-> "get_state"], [type |-> "get_available_models"]>>
          /\ cfgCall' = [cfgCall EXCEPT !.pc = "awaitRefresh"]
          /\ UNCHANGED <<cfgResults, piToggles, piModel>>
     ELSE /\ cfgResults' = Append(cfgResults, "Pi request timed out")
          /\ cfgCall' = NoCall
          /\ IF applied /\ (cfgCall.op = "model" => PiKnows(cfgCall.model))
             THEN PiApply
             ELSE UNCHANGED <<piToggles, piModel>>
          /\ UNCHANGED piWritten
  /\ UNCHANGED <<nCfgCalls, sessToggles, modelMap, broadcasts>>
  /\ UNCHANGED nonCfgVars

(***************************************************************************)
(* The mutation request settles: setToggleOption / setModel resume.  On    *)
(* success refreshSessionConfig sends get_state and get_available_models.  *)
(***************************************************************************)
setResponse(outcome, applied) ==
  /\ cfgCall # NoCall
  /\ cfgCall.pc = "awaitSet"
  /\ IF outcome = "ok"
     THEN /\ applied
          /\ cfgCall.op = "model" => PiKnows(cfgCall.model)
          /\ PiApply
          /\ piWritten' = piWritten \o <<[type |-> "get_state"], [type |-> "get_available_models"]>>
          /\ cfgCall' = [cfgCall EXCEPT !.pc = "awaitRefresh"]
          /\ UNCHANGED cfgResults
     ELSE IF outcome = "error"
     THEN /\ ~applied
          /\ cfgResults' = Append(cfgResults, "Failed to set")
          /\ cfgCall' = NoCall
          /\ UNCHANGED <<piWritten, piToggles, piModel>>
     ELSE /\ cfgResults' = Append(cfgResults, "Pi request timed out")
          /\ cfgCall' = NoCall
          /\ IF applied /\ (cfgCall.op = "model" => PiKnows(cfgCall.model))
             THEN PiApply
             ELSE UNCHANGED <<piToggles, piModel>>
          /\ UNCHANGED piWritten
  /\ UNCHANGED <<nCfgCalls, sessToggles, modelMap, broadcasts>>
  /\ UNCHANGED nonCfgVars

\* buildConfigOptions: currentValue of the toggle options
buildConfigOptions(toggles) ==
  [t \in Toggles |-> IF toggles[t] = TRUE THEN "on" ELSE "off"]

\* refreshSessionConfig: `stateData?.x ?? session.x ?? false`; session.x is
\* a boolean from the first refresh on (CfgInit), so the last default is unused
RefreshedToggles(stateOk) ==
  [t \in Toggles |-> IF stateOk THEN piToggles[t] ELSE sessToggles[t]]

\* refreshSessionConfig: the available models, with the current model put first when absent
RefreshedModels(stateOk, modelsOk) ==
  LET availableModels == IF modelsOk THEN PiModels ELSE <<>>
      currentModel == IF stateOk THEN piModel ELSE NoModel
  IN  IF /\ currentModel # NoModel
         /\ ~\E i \in 1..Len(availableModels) :
               /\ availableModels[i].id = currentModel.id
               /\ availableModels[i].provider = currentModel.provider
      THEN <<currentModel>> \o availableModels
      ELSE availableModels

(***************************************************************************)
(* Both refresh requests have settled (safePiRequest turns a failure into  *)
(* null): refreshSessionConfig resumes, refreshConfigOptions broadcasts    *)
(***************************************************************************)
refreshConfigOptions(stateOk, modelsOk) ==
  /\ cfgCall # NoCall
  /\ cfgCall.pc = "awaitRefresh"
  /\ modelMap' = BuildModelMap(RefreshedModels(stateOk, modelsOk))
  /\ sessToggles' = RefreshedToggles(stateOk)
  /\ broadcasts' = Append(broadcasts, buildConfigOptions(RefreshedToggles(stateOk)))
  /\ cfgResults' = Append(cfgResults, "ok")
  /\ cfgCall' = NoCall
  /\ UNCHANGED <<nCfgCalls, piWritten, piToggles, piModel>>
  /\ UNCHANGED nonCfgVars

\* the session after createSession / loadSession ran refreshSessionConfig once
CfgInit ==
  /\ cfgCall = NoCall
  /\ nCfgCalls = 0
  /\ cfgResults = <<>>
  /\ piWritten = <<>>
  /\ piToggles \in [Toggles -> BOOLEAN]
  /\ piModel = OpenAiGpt
  /\ \E stateOk \in BOOLEAN, modelsOk \in BOOLEAN :
       /\ sessToggles = [t \in Toggles |-> IF stateOk THEN piToggles[t] ELSE FALSE]
       /\ modelMap = BuildModelMap(RefreshedModels(stateOk, modelsOk))
  /\ broadcasts = <<>>

CfgIdle ==
  /\ cfgCall = NoCall
  /\ nCfgCalls = 0
  /\ cfgResults = <<>>
  /\ piWritten = <<>>
  /\ piToggles = [t \in Toggles |-> FALSE]
  /\ piModel = OpenAiGpt
  /\ sessToggles = [t \in Toggles |-> FALSE]
  /\ modelMap = BuildModelMap(PiModels)
  /\ broadcasts = <<>>

(***************************************************************************)
(* SessionMapStore: the persisted id-to-path map                           *)
(***************************************************************************)
StoredIds == {"a", "b"}
StoredPaths == {"p", "q"}
NoPathStored == "null"

\* a JSON object with entries id -> { piSessionPath }: a function on a set of ids
SessionMaps == UNION {[ids -> StoredPaths] : ids \in SUBSET StoredIds}
EmptyObject == <<>>

\* what the file can hold: nothing, text that is not JSON, JSON null,
\* a JSON array, or a JSON object of entries
NoFile == [kind |-> "ENOENT", entries |-> EmptyObject]
GarbageFile == [kind |-> "garbage", entries |-> EmptyObject]
NullFile == [kind |-> "null", entries |-> EmptyObject]
ArrayFile == [kind |-> "array", entries |-> EmptyObject]
ObjectFile(entries) == [kind |-> "object", entries |-> entries]
FileContents ==
  {NoFile, GarbageFile, NullFile, ArrayFile} \cup {ObjectFile(m) : m \in SessionMaps}

\* SessionMapStore.read: the value the caller works on
read(content) ==
  IF content.kind \in {"ENOENT", "garbage", "null"}
  THEN [kind |-> "object", entries |-> EmptyObject]
  ELSE [kind |-> content.kind, entries |-> content.entries]

\* map[sessionId]?.piSessionPath ?? null
lookup(map, sessionId) ==
  IF sessionId \in DOMAIN map.entries THEN map.entries[sessionId] ELSE NoPathStored

\* map[sessionId] = { piSessionPath }
assign(map, sessionId, piSessionPath) ==
  [map EXCEPT !.entries =
     [id \in (DOMAIN map.entries) \cup {sessionId} |->
        IF id = sessionId THEN piSessionPath ELSE map.entries[id]]]

\* JSON.stringify(map): an array keeps its elements only, never named properties
stringify(map) ==
  IF map.kind = "array" THEN ArrayFile ELSE ObjectFile(map.entries)

RECURSIVE mergeInto(_, _)
\* the loop of SessionMapStore.merge over Object.entries(entries)
mergeInto(map, entries) ==
  IF DOMAIN entries = {} THEN map
  ELSE LET id == CHOOSE x \in DOMAIN entries : TRUE
           rest == [y \in (DOMAIN entries) \ {id} |-> entries[y]]
       IN  mergeInto(IF lookup(map, id) = entries[id] THEN map
                     ELSE assign(map, id, entries[id]), rest)

\* merge sets `changed` when some given entry differs from the stored one
mergeChanged(map, entries) ==
  \E id \in DOMAIN entries : lookup(map, id) # entries[id]

(***************************************************************************)
(* A SessionMapStore method is called: it suspends in `await this.read()`  *)
(***************************************************************************)
mapCall(kind, sessionId, piSessionPath, entries) ==
  /\ mapOps' = Append(mapOps, [kind |-> kind, pc |-> "read", sessionId |-> sessionId,
                               piSessionPath |-> piSessionPath, entries |-> entries,
                               map |-> read(NoFile), result |-> NoPathStored])
  /\ UNCHANGED mapFile

\* get(sessionId)
mapGet(sessionId) ==
  /\ Len(mapOps) < MaxMapOps
  /\ mapCall("get", sessionId, NoPathStored, EmptyObject)
  /\ UNCHANGED nonMapVars

\* set(sessionId, piSessionPath)
mapSet(sessionId, piSessionPath) ==
  /\ Len(mapOps) < MaxMapOps
  /\ mapCall("set", sessionId, piSessionPath, EmptyObject)
  /\ UNCHANGED nonMapVars

\* merge(entries)
mapMerge(entries) ==
  /\ Len(mapOps) < MaxMapOps
  /\ mapCall("merge", "-", NoPathStored, entries)
  /\ UNCHANGED nonMapVars

\* the call resumes with the file content read: get returns, set and merge
\* update their copy and go on to mkdir / writeFile
mapResume(i, op) ==
  LET map == read(mapFile)
  IN  IF op.kind = "get"
      THEN [op EXCEPT !.pc = "done", !.map = map, !.result = lookup(map, op.sessionId)]
      ELSE IF op.kind = "set"
      THEN [op EXCEPT !.pc = "write", !.map = assign(map, op.sessionId, op.piSessionPath)]
      ELSE IF mergeChanged(map, op.entries)
      THEN [op EXCEPT !.pc = "write", !.map = mergeInto(map, op.entries)]
      ELSE [op EXCEPT !.pc = "done", !.map = map]

(***************************************************************************)
(* SessionMapStore.read completes for call i                               *)
(***************************************************************************)
mapRead(i) ==
  /\ i \in 1..Len(mapOps)
  /\ mapOps[i].pc = "read"
  /\ mapOps' = [mapOps EXCEPT ![i] = mapResume(i, mapOps[i])]
  /\ UNCHANGED mapFile
  /\ UNCHANGED nonMapVars

(***************************************************************************)
(* writeFile(mapPath, JSON.stringify(map)) completes for call i            *)
(***************************************************************************)
mapWrite(i) ==
  /\ i \in 1..Len(mapOps)
  /\ mapOps[i].pc = "write"
  /\ mapFile' = stringify(mapOps[i].map)
  /\ mapOps' = [mapOps EXCEPT ![i].pc = "done"]
  /\ UNCHANGED nonMapVars

MapInit ==
  /\ mapFile \in FileContents
  /\ mapOps = <<>>

MapIdle ==
  /\ mapFile = NoFile
  /\ mapOps = <<>>

(***************************************************************************)
(* SessionManager.loadSession / resumeSession: resolveSessionPath and      *)
(* createSessionFromPath                                                   *)
(***************************************************************************)
NoSession == [proc |-> 0, sessionFile |-> NoPathStored]
NoLoad == [pc |-> "idle"]

\* where the call's session id was known when resolveSessionPath looked:
\* as a live session with a transcript file, in the persisted map, in the scan
FoundNowhere == [live |-> FALSE, mapped |-> FALSE, scanned |-> FALSE]
FoundLive == [live |-> TRUE, mapped |-> FALSE, scanned |-> FALSE]
FoundMapped == [live |-> FALSE, mapped |-> TRUE, scanned |-> FALSE]
FoundByScan(sessionId) ==
  [live |-> FALSE, mapped |-> FALSE, scanned |-> sessionId \in DOMAIN transcripts]

\* resolveSessionPath returns a path the scan always finds
resolved_FirstFound(scan, sessionId) ==
  IF sessionId \in DOMAIN scan THEN scan[sessionId]
  ELSE IF DOMAIN scan # {} THEN scan[CHOOSE id \in DOMAIN scan : TRUE]
  ELSE NoPathStored

\* resolveSessionPath: `map.get(sessionId) ?? null` on the scan result
resolved(scan, sessionId) ==
  IF sessionId \in DOMAIN scan THEN scan[sessionId] ELSE NoPathStored

\* the call throws `Unknown session`
loadFail(error) ==
  /\ mgrResults' = Append(mgrResults, [sessionId |-> loadCall.sessionId, outcome |-> error,
                                       proc |-> 0, found |-> loadCall.found,
                                       spawnedByCall |-> Len(spawned) - loadCall.before])
  /\ loadCall' = NoLoad
  /\ UNCHANGED <<sessions, spawned, mapOps>>

\* createSessionFromPath up to `await this.sessionMap.set`: spawnSession,
\* state.sessionFile = sessionPath, sessions.set(sessionId, state)
createSessionFromPath(sessionId, sessionPath, found) ==
  /\ spawned' = Append(spawned, [sessionId |-> sessionId, running |-> TRUE])
  /\ sessions' = [sessions EXCEPT ![sessionId] =
                    [proc |-> Len(spawned) + 1, sessionFile |-> sessionPath]]
  /\ mapCall("set", sessionId, sessionPath, EmptyObject)
  /\ loadCall' = [pc |-> "awaitSet", sessionId |-> sessionId, op |-> Len(mapOps) + 1,
                  path |-> sessionPath, proc |-> Len(spawned) + 1, found |-> found,
                  before |-> Len(spawned)]
  /\ UNCHANGED mgrResults

(***************************************************************************)
(* loadSession / resumeSession is called: resolveSessionPath looks at the  *)
(* live map and, without a known file there, awaits sessionMap.get         *)
(***************************************************************************)
loadSession(sessionId) ==
  /\ loadCall = NoLoad
  /\ Len(mgrResults) < MaxLoads
  /\ IF sessions[sessionId].sessionFile # NoPathStored
     THEN createSessionFromPath(sessionId, sessions[sessionId].sessionFile, FoundLive)
     ELSE /\ mapCall("get", sessionId, NoPathStored, EmptyObject)
          /\ loadCall' = [pc |-> "awaitGet", sessionId |-> sessionId, op |-> Len(mapOps) + 1,
                          path |-> NoPathStored, proc |-> 0, found |-> FoundNowhere,
                          before |-> Len(spawned)]
          /\ UNCHANGED <<sessions, spawned, mgrResults>>
  /\ UNCHANGED <<mapFile, transcripts>>
  /\ UNCHANGED initVars
  /\ UNCHANGED nonMgrMapVars

(***************************************************************************)
(* sessionMap.get has returned: a mapped path is used, else scanSessions   *)
(***************************************************************************)
loadAfterGet ==
  /\ loadCall # NoLoad
  /\ loadCall.pc = "awaitGet"
  /\ mapOps[loadCall.op].pc = "done"
  /\ IF mapOps[loadCall.op].result # NoPathStored
     THEN createSessionFromPath(loadCall.sessionId, mapOps[loadCall.op].result, FoundMapped)
     ELSE /\ loadCall' = [loadCall EXCEPT !.pc = "awaitScan"]
          /\ UNCHANGED <<sessions, spawned, mgrResults, mapOps>>
  /\ UNCHANGED <<mapFile, transcripts>>
  /\ UNCHANGED initVars
  /\ UNCHANGED nonMgrMapVars

(***************************************************************************)
(* scanSessions has returned: a non-empty scan is merged into the map file *)
(* first; then resolveSessionPath returns and the caller throws or goes on *)
(***************************************************************************)
loadAfterScan ==
  /\ loadCall # NoLoad
  /\ loadCall.pc = "awaitScan"
  /\ IF DOMAIN transcripts # {}
     THEN /\ mapCall("merge", "-", NoPathStored, transcripts)
          /\ loadCall' = [loadCall EXCEPT !.pc = "awaitMerge", !.op = Len(mapOps) + 1,
                                          !.path = resolved(transcripts, loadCall.sessionId),
                                          !.found = FoundByScan(loadCall.sessionId)]
          /\ UNCHANGED <<sessions, spawned, mgrResults>>
     ELSE IF resolved(transcripts, loadCall.sessionId) = NoPathStored
     THEN loadFail("Unknown session")
     ELSE createSessionFromPath(loadCall.sessionId, resolved(transcripts, loadCall.sessionId),
                                FoundByScan(loadCall.sessionId))
  /\ UNCHANGED <<mapFile, transcripts>>
  /\ UNCHANGED initVars
  /\ UNCHANGED nonMgrMapVars

(***************************************************************************)
(* sessionMap.merge has returned                                           *)
(***************************************************************************)
loadAfterMerge ==
  /\ loadCall # NoLoad
  /\ loadCall.pc = "awaitMerge"
  /\ mapOps[loadCall.op].pc = "done"
  /\ IF loadCall.path = NoPathStored
     THEN loadFail("Unknown session")
     ELSE createSessionFromPath(loadCall.sessionId, loadCall.path, loadCall.found)
  /\ UNCHANGED <<mapFile, transcripts>>
  /\ UNCHANGED initVars
  /\ UNCHANGED nonMgrMapVars

\* loadSession that emits the initial notifications before it returns
loadAfterSwitch_EmitsInline(success) ==
  /\ loadCall # NoLoad
  /\ loadCall.pc = "awaitSet"
  /\ mapOps[loadCall.op].pc = "done"
  /\ mgrResults' = Append(mgrResults,
       [sessionId |-> loadCall.sessionId,
        outcome |-> IF success THEN "ok" ELSE "Failed to switch session",
        proc |-> loadCall.proc, found |-> loadCall.found,
        spawnedByCall |-> Len(spawned) - loadCall.before])
  /\ initUpdates' = IF success
                    THEN initUpdates \o <<[sessionId |-> loadCall.sessionId,
                                           call |-> Len(mgrResults) + 1,
                                           update |-> "available_commands_update"]>>
                    ELSE initUpdates
  /\ initTasks' = IF success
                  THEN Append(initTasks, [sessionId |-> loadCall.sessionId,
                                          call |-> Len(mgrResults) + 1, pc |-> "readInfo"])
                  ELSE initTasks
  /\ loadCall' = NoLoad
  /\ UNCHANGED <<sessions, spawned, transcripts, mapFile, mapOps>>
  /\ UNCHANGED nonMgrMapVars

(***************************************************************************)
(* sessionMap.set has returned and switch_session has been answered; on    *)
(* success the configuration is refreshed, queueSessionInitUpdates arms    *)
(* its zero-delay timer and the call returns                               *)
(***************************************************************************)
loadAfterSwitch(success) ==
  /\ loadCall # NoLoad
  /\ loadCall.pc = "awaitSet"
  /\ mapOps[loadCall.op].pc = "done"
  /\ mgrResults' = Append(mgrResults,
       [sessionId |-> loadCall.sessionId,
        outcome |-> IF success THEN "ok" ELSE "Failed to switch session",
        proc |-> loadCall.proc, found |-> loadCall.found,
        spawnedByCall |-> Len(spawned) - loadCall.before])
  /\ initTasks' = IF success
                  THEN Append(initTasks, [sessionId |-> loadCall.sessionId,
                                          call |-> Len(mgrResults) + 1, pc |-> "timer"])
                  ELSE initTasks
  /\ loadCall' = NoLoad
  /\ UNCHANGED <<sessions, spawned, transcripts, mapFile, mapOps, initUpdates>>
  /\ UNCHANGED nonMgrMapVars

\* what the timer callback of queueSessionInitUpdates emits for a session
\* that is (is not) in the live map when it runs
initialUpdates(sessionId, call, live) ==
  IF ~live THEN <<>>
  ELSE <<[sessionId |-> sessionId, call |-> call, update |-> "available_commands_update"],
         [sessionId |-> sessionId, call |-> call, update |-> "session_info_update"]>>

(***************************************************************************)
(* The timer of queueSessionInitUpdates fires (timers of equal delay fire  *)
(* in the order they were armed); for a live session it emits and starts   *)
(* emitInitialSessionInfo, which awaits readSessionInfo                    *)
(***************************************************************************)
initTimerFires(i) ==
  /\ i \in 1..Len(initTasks)
  /\ initTasks[i].pc = "timer"
  /\ \A j \in 1..(i - 1) : initTasks[j].pc # "timer"
  /\ LET live == sessions[initTasks[i].sessionId] # NoSession IN
     /\ initUpdates' = initUpdates \o initialUpdates(initTasks[i].sessionId, initTasks[i].call, live)
     /\ initTasks' = [initTasks EXCEPT ![i].pc = IF live THEN "readInfo" ELSE "done"]
  /\ UNCHANGED <<sessions, spawned, transcripts, loadCall, mgrResults>>
  /\ UNCHANGED nonMgrVars

(***************************************************************************)
(* emitInitialSessionInfo: readSessionInfo has returned the transcript's   *)
(* info, or null                                                           *)
(***************************************************************************)
emitInitialSessionInfo(i, hasInfo) ==
  /\ i \in 1..Len(initTasks)
  /\ initTasks[i].pc = "readInfo"
  /\ initUpdates' = IF hasInfo
                    THEN Append(initUpdates, [sessionId |-> initTasks[i].sessionId,
                                              call |-> initTasks[i].call,
                                              update |-> "session_info_update"])
                    ELSE initUpdates
  /\ initTasks' = [initTasks EXCEPT ![i].pc = "done"]
  /\ UNCHANGED <<sessions, spawned, transcripts, loadCall, mgrResults>>
  /\ UNCHANGED nonMgrVars

(***************************************************************************)
(* A subprocess exits on its own                                           *)
(***************************************************************************)
piExit(i) ==
  /\ i \in 1..Len(spawned)
  /\ spawned[i].running
  /\ spawned' = [spawned EXCEPT ![i].running = FALSE]
  /\ UNCHANGED <<sessions, transcripts, loadCall, mgrResults>>
  /\ UNCHANGED initVars
  /\ UNCHANGED nonMgrVars

\* no live session, or session a created earlier, with or without a known file
MgrInit ==
  /\ transcripts \in SessionMaps
  /\ loadCall = NoLoad
  /\ mgrResults = <<>>
  /\ initTasks = <<>>
  /\ initUpdates = <<>>
  /\ \/ /\ sessions = [id \in StoredIds |-> NoSession]
        /\ spawned = <<>>
     \/ /\ \E file \in {"p", NoPathStored} :
             sessions = [id \in StoredIds |->
                           IF id = "a" THEN [proc |-> 1, sessionFile |-> file] ELSE NoSession]
        /\ spawned = <<[sessionId |-> "a", running |-> TRUE]>>

MgrIdle ==
  /\ transcripts = EmptyObject
  /\ loadCall = NoLoad
  /\ mgrResults = <<>>
  /\ initTasks = <<>>
  /\ initUpdates = <<>>
  /\ sessions = [id \in StoredIds |-> NoSession]
  /\ spawned = <<>>

(***************************************************************************)
(* Pure helpers applied to drawn inputs                                    *)
(***************************************************************************)
Unset == [kind |-> "unset"]

RouterLlama == [id |-> <<"meta", Slash, "llama">>, provider |-> <<"openrouter">>, name |-> <<"Llama">>]
TargetModels == {OpenAiGpt, OllamaLlama, RouterLlama}
\* the available models a session's map was built from
ModelListInputs ==
  {<<>>, <<OpenAiGpt>>, <<OpenAiGpt, OllamaLlama>>, <<OllamaLlama, OpenAiGpt>>,
   <<RouterLlama, OllamaLlama>>}
ModelForms == {"colon", "slash", "bare"}

\* the string a caller writes for a model in each form
FormOf(model, form) ==
  IF form = "colon" THEN model.provider \o <<Colon>> \o model.id
  ELSE IF form = "slash" THEN model.provider \o <<Slash>> \o model.id
  ELSE model.id

(***************************************************************************)
(* mapStopReason(stopReasonIn)                                             *)
(***************************************************************************)
applyMapStopReason ==
  /\ stopReasonOut = Unset
  /\ stopReasonOut' = [kind |-> "value", value |-> mapStopReason(stopReasonIn)]
  /\ UNCHANGED <<stopReasonIn, resolveIn, resolveOut, forkIn, forkOut>>
  /\ UNCHANGED nonPureVars

(***************************************************************************)
(* resolveModelId(session, modelId) on the drawn map and name              *)
(***************************************************************************)
applyResolveModelId ==
  /\ Len(resolveOut) < MaxResolves
  /\ resolveOut' = Append(resolveOut,
       resolveModelId(resolveIn.map, FormOf(resolveIn.model, resolveIn.form)))
  /\ UNCHANGED <<stopReasonIn, stopReasonOut, resolveIn, forkIn, forkOut>>
  /\ UNCHANGED nonPureVars

PureInit ==
  /\ stopReasonIn \in StopReasonInputs
  /\ stopReasonOut = Unset
  /\ resolveIn \in [map : {BuildModelMap(l) : l \in ModelListInputs},
                    model : TargetModels, form : ModelForms]
  /\ resolveOut = <<>>
  /\ forkIn = <<>>
  /\ forkOut = Unset

PureIdle ==
  /\ stopReasonIn = "missing"
  /\ stopReasonOut = Unset
  /\ resolveIn = [map |-> <<>>, model |-> OpenAiGpt, form |-> "colon"]
  /\ resolveOut = <<>>
  /\ forkIn = <<>>
  /\ forkOut = Unset

(***************************************************************************)
(* createForkedSessionFile.  A file's content is the sequence of pieces    *)
(* that content.split("\n") yields; a line is described by what            *)
(* safeJsonParse and the header / entry tests see in it.                   *)
(***************************************************************************)
SourcePath == "/sessions/src.jsonl"
SourceId == "src-id"
NewId == "new-id"
BlankLine == [kind |-> "blank", id |-> "-", parentSession |-> "-"]
SourceHeader == [kind |-> "session", id |-> SourceId, parentSession |-> "-"]
\* whitespace only; a session header; a header object without a string id;
\* two message entries; another entry type; text that is not JSON
LineInputs ==
  {BlankLine, SourceHeader,
   [kind |-> "session-no-id", id |-> "-", parentSession |-> "-"],
   [kind |-> "message", id |-> "m1", parentSession |-> "-"],
   [kind |-> "message", id |-> "m2", parentSession |-> "-"],
   [kind |-> "session_info", id |-> "i1", parentSession |-> "-"],
   [kind |-> "garbage", id |-> "g1", parentSession |-> "-"]}

RECURSIVE SeqsUpTo(_, _)
\* the sequences over S of length at most n
SeqsUpTo(S, n) ==
  IF n = 0 THEN {<<>>}
  ELSE LET shorter == SeqsUpTo(S, n - 1)
       IN  shorter \cup {Append(q, x) : q \in shorter, x \in S}

NotBlank(line) == line.kind # "blank"
\* content.split("\n").filter((line) => line.trim().length > 0)
nonBlankLines(content) == SelectSeq(content, NotBlank)

\* the forked file without dropping the source header
forkedLines_KeepsHeader(sourcePath, lines) ==
  <<[kind |-> "session", id |-> NewId, parentSession |-> sourcePath]>> \o lines

\* [JSON.stringify(newHeader), ...lines.slice(1)]
forkedLines(sourcePath, lines) ==
  <<[kind |-> "session", id |-> NewId, parentSession |-> sourcePath]>> \o Tail(lines)

\* createForkedSessionFile: the error thrown, or the content written
\* (`${output}\n` reads back as the joined lines and one empty piece)
createForkedSessionFile(sourcePath, content) ==
  LET lines == nonBlankLines(content)
  IN  IF Len(lines) = 0
      THEN [kind |-> "error", error |-> "Source session is empty", content |-> <<>>]
      ELSE IF lines[1].kind # "session"
      THEN [kind |-> "error", error |-> "Invalid session header", content |-> <<>>]
      ELSE [kind |-> "written", error |-> "-",
            content |-> forkedLines(sourcePath, lines) \o <<BlankLine>>]

IsMessage(line) == line.kind = "message"
\* readSessionInfo: the message entries among lines.slice(1)
messageEntries(content) ==
  LET lines == nonBlankLines(content)
  IN  IF Len(lines) = 0 THEN <<>> ELSE SelectSeq(Tail(lines), IsMessage)

(***************************************************************************)
(* createForkedSessionFile(SourcePath, cwd) on the drawn source file       *)
(***************************************************************************)
applyFork ==
  /\ forkOut = Unset
  /\ forkOut' = createForkedSessionFile(SourcePath, forkIn)
  /\ UNCHANGED <<stopReasonIn, stopReasonOut, resolveIn, resolveOut, forkIn>>
  /\ UNCHANGED nonPureVars

ForkInit ==
  /\ stopReasonIn = "missing"
  /\ stopReasonOut = Unset
  /\ resolveIn = [map |-> <<>>, model |-> OpenAiGpt, form |-> "colon"]
  /\ resolveOut = <<>>
  /\ forkIn \in SeqsUpTo(LineInputs, MaxForkLines)
  /\ forkOut = Unset

(***************************************************************************)
(* SessionStatusReporter.  The repository holds two sources: status.ts     *)
(* (ensure() creates the notification as idle, update() then compares) and *)
(* the one stored in part_002 (the first update() creates it).             *)
(***************************************************************************)
StatusImpls == {"status_ts", "part_002"}
StatusStates == {"idle", "running", "cancelled", "error"}
\* the detail of an update: none, or one of two texts
DetailInputs == {Undef, "Prompt sent", "Agent finished"}
StatusId == "session_status:s1"

\* `update.detail ?? null`
DetailOrNull(detail) == IF detail = Undef THEN "null" ELSE detail

\* SessionStatusReporter.mapStatus
mapStatus(state) ==
  CASE state = "running" -> "in_progress"
    [] state \in {"cancelled", "error"} -> "failed"
    [] OTHER -> "completed"

\* the notification handed to emitUpdate; state and detail stand for buildContent(update)
statusNote(sessionUpdate, status, state, detail) ==
  [sessionUpdate |-> sessionUpdate, toolCallId |-> StatusId, status |-> status,
   state |-> state, detail |-> DetailOrNull(detail)]

\* update() without the comparison against the recorded pair
update_AlwaysEmits(state, detail) ==
  /\ nStatusCalls < MaxStatusCalls
  /\ nStatusCalls' = nStatusCalls + 1
  /\ statusToolCallId' = TRUE
  /\ statusState' = state
  /\ statusDetail' = DetailOrNull(detail)
  /\ statusEmitted' =
       IF statusToolCallId
       THEN Append(statusEmitted, statusNote("tool_call_update", mapStatus(state), state, detail))
       ELSE Append(statusEmitted, statusNote("tool_call", mapStatus(state), state, detail))
  /\ UNCHANGED statusImpl
  /\ UNCHANGED nonStatusVars

(***************************************************************************)
(* SessionStatusReporter.update (with ensure, in status.ts)                *)
(***************************************************************************)
update(state, detail) ==
  /\ nStatusCalls < MaxStatusCalls
  /\ nStatusCalls' = nStatusCalls + 1
  /\ statusToolCallId' = TRUE
  /\ IF statusImpl = "status_ts"
     THEN LET ensured == IF statusToolCallId THEN statusEmitted
                         ELSE Append(statusEmitted,
                                     statusNote("tool_call", "completed", "idle", Undef))
              ensuredState == IF statusToolCallId THEN statusState ELSE "idle"
              ensuredDetail == IF statusToolCallId THEN statusDetail ELSE "null"
          IN  IF ensuredState = state /\ ensuredDetail = DetailOrNull(detail)
              THEN /\ statusEmitted' = ensured
                   /\ statusState' = ensuredState
                   /\ statusDetail' = ensuredDetail
              ELSE /\ statusEmitted' =
                        Append(ensured, statusNote("tool_call_update", mapStatus(state), state, detail))
                   /\ statusState' = state
                   /\ statusDetail' = DetailOrNull(detail)
     ELSE LET isFirst == ~statusToolCallId IN
          IF ~isFirst /\ statusState = state /\ statusDetail = DetailOrNull(detail)
          THEN UNCHANGED <<statusEmitted, statusState, statusDetail>>
          ELSE /\ statusState' = state
               /\ statusDetail' = DetailOrNull(detail)
               /\ statusEmitted' =
                    Append(statusEmitted,
                           statusNote(IF isFirst THEN "tool_call" ELSE "tool_call_update",
                                      mapStatus(state), state, detail))
  /\ UNCHANGED statusImpl
  /\ UNCHANGED nonStatusVars

\* createSessionState leaves the three status fields undefined
StatusInit ==
  /\ statusImpl \in StatusImpls
  /\ statusToolCallId = FALSE
  /\ statusState = Undef
  /\ statusDetail = Undef
  /\ statusEmitted = <<>>
  /\ nStatusCalls = 0

StatusIdle ==
  /\ statusImpl = "status_ts"
  /\ statusToolCallId = FALSE
  /\ statusState = Undef
  /\ statusDetail = Undef
  /\ statusEmitted = <<>>
  /\ nStatusCalls = 0

(***************************************************************************)
(* Two sessions created by spawnSessionState: each has its own state       *)
(* object and PiProcess, and the listeners registered on a process are     *)
(* closures over that session's state.  Every handler below is the code's  *)
(* handler reduced to the session fields it writes.                        *)
(***************************************************************************)
SessionPair == {"A", "B"}
IsoLineTypes == {"tool_execution_start", "tool_execution_end", "turn_end", "agent_end",
                 "response", "message_update"}

\* createSessionState, and a fresh PiProcess
NewSessionState ==
  [pendingPrompt |-> FALSE, toolCallInputs |-> {}, toolCallSnapshots |-> {},
   snapshotReads |-> {}, pendingRequests |-> 0, agentEnds |-> 0,
   statusState |-> Undef, exited |-> FALSE]

\* the step handles something of session s: only that session's record is replaced
OnSession(s, state) ==
  /\ nIsoSteps < MaxIsoSteps
  /\ nIsoSteps' = nIsoSteps + 1
  /\ sessionStates' = [sessionStates EXCEPT ![s] = state]
  /\ UNCHANGED nonIsoVars

\* SessionManager.prompt(s) with a text prompt: send, fill the slot
sessionPrompt(s) ==
  /\ ~sessionStates[s].pendingPrompt
  /\ OnSession(s, [sessionStates[s] EXCEPT !.pendingPrompt = TRUE])

\* SessionManager.cancel(s)
sessionCancel(s) ==
  OnSession(s, [sessionStates[s] EXCEPT !.pendingPrompt = FALSE])

\* handlePiLine(state of s, line): a line of s's subprocess, about tool call t
sessionHandlePiLine(s, type, t) ==
  /\ ~sessionStates[s].exited
  /\ type = "response" => sessionStates[s].pendingRequests > 0
  /\ OnSession(s,
       CASE type = "tool_execution_start" ->
              [sessionStates[s] EXCEPT !.statusState = "running",
                                       !.toolCallInputs = @ \cup {t},
                                       !.snapshotReads = @ \cup {t}]
         [] type = "tool_execution_end" ->
              [sessionStates[s] EXCEPT !.statusState = "running",
                                       !.toolCallInputs = @ \ {t},
                                       !.toolCallSnapshots = @ \ {t}]
         [] type = "turn_end" ->
              [sessionStates[s] EXCEPT !.statusState = "running"]
         [] type = "agent_end" ->
              [sessionStates[s] EXCEPT !.pendingRequests = @ + 1, !.agentEnds = @ + 1]
         [] type = "response" ->
              [sessionStates[s] EXCEPT !.pendingRequests = @ - 1]
         [] OTHER -> sessionStates[s])

\* snapshotFile of s resumes after readFile
sessionSnapshotDone(s, t) ==
  /\ t \in sessionStates[s].snapshotReads
  /\ OnSession(s, [sessionStates[s] EXCEPT !.snapshotReads = @ \ {t},
                                           !.toolCallSnapshots = @ \cup {t}])

\* handleAgentEnd of s resumes after getSummary: its request is no longer pending
sessionHandleAgentEnd(s) ==
  /\ sessionStates[s].agentEnds > sessionStates[s].pendingRequests
  /\ OnSession(s, [sessionStates[s] EXCEPT !.agentEnds = @ - 1, !.pendingPrompt = FALSE,
                                           !.statusState = "idle"])

\* a request of s times out
sessionOnTimeout(s) ==
  /\ sessionStates[s].pendingRequests > 0
  /\ OnSession(s, [sessionStates[s] EXCEPT !.pendingRequests = @ - 1])

\* the error listener of spawnSession rejecting the pending prompt of every session
sessionOnError_AllSessions(s) ==
  /\ nIsoSteps < MaxIsoSteps
  /\ nIsoSteps' = nIsoSteps + 1
  /\ sessionStates' = [o \in SessionPair |-> [sessionStates[o] EXCEPT !.pendingPrompt = FALSE]]
  /\ UNCHANGED nonIsoVars

\* the error listener registered by spawnSession for s
sessionOnError(s) ==
  /\ ~sessionStates[s].exited
  /\ OnSession(s, [sessionStates[s] EXCEPT !.pendingPrompt = FALSE])

\* the exit handler of s's PiProcess: rejectAllPending
sessionOnExit(s) ==
  /\ ~sessionStates[s].exited
  /\ OnSession(s, [sessionStates[s] EXCEPT !.exited = TRUE, !.pendingRequests = 0])

IsoInit ==
  /\ sessionStates = [s \in SessionPair |-> NewSessionState]
  /\ nIsoSteps = 0

IsoIdle ==
  /\ sessionStates = [s \in SessionPair |-> NewSessionState]
  /\ nIsoSteps = 0

(***************************************************************************)
(* History replay: SessionManager.loadSession starts replayHistory         *)
(* without awaiting it; replayHistory requests get_messages and re-emits   *)
(* the text of the returned messages.                                      *)
(***************************************************************************)
RoleInputs == {"user", "assistant", "toolResult", Undef}
TextItem(text) == [type |-> "text", text |-> text]
ImageItem == [type |-> "image", text |-> Undef]
StringContent(text) == [kind |-> "string", items |-> <<TextItem(text)>>]
ArrayContent(items) == [kind |-> "array", items |-> items]
NoContent == [kind |-> "none", items |-> <<>>]

\* message contents a get_messages answer can carry
ContentInputs ==
  { StringContent("a"), StringContent(""), NoContent,
    ArrayContent(<<>>),
    ArrayContent(<<TextItem("a"), TextItem("b")>>),
    ArrayContent(<<TextItem("b"), ImageItem, TextItem("a")>>),
    ArrayContent(<<TextItem(""), TextItem("b")>>),
    ArrayContent(<<ImageItem>>) }

MessageInputs == [role : RoleInputs, content : ContentInputs]

RECURSIVE HistoriesUpTo(_)
HistoriesUpTo(n) ==
  IF n = 0 THEN {<<>>}
  ELSE LET shorter == HistoriesUpTo(n - 1)
       IN shorter \cup {Append(h, m) : h \in {x \in shorter : Len(x) = n - 1}, m \in MessageInputs}

\* how the get_messages request settles: success with a messages array,
\* success without one, success=false, or a rejection
ReplayOutcomes == {"ok", "nodata", "failed", "timeout", "exited"}

\* role === "user" ? "user_message_chunk" : "agent_message_chunk", with a
\* role tagging every chunk as an agent chunk
RoleTag_AlwaysAgent(role) == "agent_message_chunk"

\* role === "user" ? "user_message_chunk" : "agent_message_chunk"
RoleTag(role) ==
  IF role = "user" THEN "user_message_chunk" ELSE "agent_message_chunk"

\* emitText
TextChunk(sessionUpdate, text) == [sessionUpdate |-> sessionUpdate, text |-> text]

\* the inner loop over an array content: text items with a non-empty text
RECURSIVE ItemChunks(_, _)
ItemChunks(items, role) ==
  IF items = <<>> THEN <<>>
  ELSE LET item == Head(items)
           own == IF item.type = "text" /\ item.text # "" /\ item.text # Undef
                  THEN <<TextChunk(RoleTag(role), item.text)>>
                  ELSE <<>>
       IN own \o ItemChunks(Tail(items), role)

\* the body of the loop over the messages
MessageChunks(message) ==
  CASE message.content.kind = "string" ->
         <<TextChunk(RoleTag(message.role), message.content.items[1].text)>>
    [] message.content.kind = "array" -> ItemChunks(message.content.items, message.role)
    [] OTHER -> <<>>

RECURSIVE ReplayChunks(_)
ReplayChunks(messages) ==
  IF messages = <<>> THEN <<>>
  ELSE MessageChunks(Head(messages)) \o ReplayChunks(Tail(messages))

\* loadSession: void this.runtime.replayHistory(state) runs up to its await,
\* then loadSession returns
replayHistory ==
  /\ replayPc = "idle"
  /\ replayPc' = "requested"
  /\ loadResult' = "returned"
  /\ UNCHANGED <<history, replayOutcome, replayEmitted, replayWarnings>>
  /\ UNCHANGED nonReplayVars

\* replayHistory resumes when the get_messages request settles
replayHistoryResume(outcome) ==
  /\ replayPc = "requested"
  /\ replayPc' = "done"
  /\ replayOutcome' = outcome
  /\ replayWarnings' = IF outcome \in {"timeout", "exited"} THEN replayWarnings + 1
                       ELSE replayWarnings
  /\ replayEmitted' = IF outcome = "ok" THEN replayEmitted \o ReplayChunks(history)
                      ELSE replayEmitted
  /\ UNCHANGED <<history, loadResult>>
  /\ UNCHANGED nonReplayVars

ReplayInit ==
  /\ history \in HistoriesUpTo(MaxMessages)
  /\ replayPc = "idle"
  /\ replayOutcome = Undef
  /\ replayEmitted = <<>>
  /\ replayWarnings = 0
  /\ loadResult = Undef

ReplayIdle ==
  /\ history = <<>>
  /\ replayPc = "idle"
  /\ replayOutcome = Undef
  /\ replayEmitted = <<>>
  /\ replayWarnings = 0
  /\ loadResult = Undef

(***************************************************************************)
(* refreshSessionConfig: the model map and the current model id rebuilt    *)
(* from what the subprocess reports                                        *)
(***************************************************************************)
nonRefreshVars == <<promptVars, procVars, toolVars, lineVars, cfgVars, mapVars, mgrVars, pureVars, statusVars, isoVars, replayVars>>

\* a second listing of openai/gpt-5 under another display name
OpenAiGptPreview == [id |-> <<"gpt-5">>, provider |-> <<"openai">>, name |-> <<"GPT-5 preview">>]
\* a custom provider whose name holds a colon
OllamaLlama3Provider == [id |-> <<"8b">>, provider |-> <<"ollama", Colon, "llama3">>, name |-> <<"Llama 8b">>]

\* models a get_state or get_available_models answer can carry
ReportedModels == {OpenAiGpt, OpenAiGptPreview, OllamaLlama, OllamaLlama3Provider}

RECURSIVE ModelListsUpTo(_)
ModelListsUpTo(n) ==
  IF n = 0 THEN {<<>>}
  ELSE LET shorter == ModelListsUpTo(n - 1)
       IN shorter \cup {Append(l, m) : l \in {x \in shorter : Len(x) = n - 1}, m \in ReportedModels}

\* the unshift: the current model is put first when the list lacks its provider/id pair
WithCurrentModel(currentModel, availableModels) ==
  IF /\ currentModel # NoModel
     /\ ~\E i \in 1..Len(availableModels) :
           /\ availableModels[i].id = currentModel.id
           /\ availableModels[i].provider = currentModel.provider
  THEN <<currentModel>> \o availableModels
  ELSE availableModels

\* currentModel ? encodeModelId(currentModel)
\*   : availableModels[0] ? encodeModelId(availableModels[0]) : undefined
CurrentModelIdOf(currentModel, availableModels) ==
  IF currentModel # NoModel THEN encodeModelId(currentModel)
  ELSE IF Len(availableModels) > 0 THEN encodeModelId(availableModels[1])
  ELSE Undef

\* refreshSessionConfig after both requests settled; safePiRequest turns a
\* failed request into null: no state data, no available models
refreshSessionConfig(stateOk, modelsOk) ==
  /\ nRefreshes < MaxRefreshes
  /\ nRefreshes' = nRefreshes + 1
  /\ LET currentModel == IF stateOk THEN piCurrent ELSE NoModel
         availableModels == WithCurrentModel(currentModel, IF modelsOk THEN piAvailable ELSE <<>>)
     IN  /\ sessionModelMap' = BuildModelMap(availableModels)
         /\ currentModelId' = CurrentModelIdOf(currentModel, availableModels)
         /\ modelsResult' = availableModels
  /\ UNCHANGED <<piCurrent, piAvailable>>
  /\ UNCHANGED nonRefreshVars

\* createSessionState: an empty model map and no current model id
RefreshInit ==
  /\ piCurrent \in ReportedModels \cup {NoModel}
  /\ piAvailable \in ModelListsUpTo(MaxModels)
  /\ sessionModelMap = <<>>
  /\ currentModelId = Undef
  /\ modelsResult = <<>>
  /\ nRefreshes = 0

RefreshIdle ==
  /\ piCurrent = NoModel
  /\ piAvailable = <<>>
  /\ sessionModelMap = <<>>
  /\ currentModelId = Undef
  /\ modelsResult = <<>>
  /\ nRefreshes = 0

(***************************************************************************)
(* Specification of the prompt life cycle                                  *)
(***************************************************************************)
PromptInit ==
  /\ runtimeImpl \in RuntimeImpls
  /\ alive = [s \in Sessions |-> TRUE]
  /\ pendingPrompt = [s \in Sessions |-> NoPrompt]
  /\ promptSession = [p \in Prompts |-> "-"]
  /\ promptKind = [p \in Prompts |-> "-"]
  /\ promptPc = [p \in Prompts |-> "new"]
  /\ promptResult = [p \in Prompts |-> "none"]
  /\ settleCount = [p \in Prompts |-> 0]
  /\ settledBy = [p \in Prompts |-> NoTrigger]
  /\ heartbeat = [p \in Prompts |-> FALSE]
  /\ piInbox = [s \in Sessions |-> <<>>]
  /\ piRun = [s \in Sessions |-> NoPrompt]
  /\ abortsSent = [s \in Sessions |-> 0]
  /\ agentEndTasks = [s \in Sessions |-> <<>>]
  /\ agentEndLog = [s \in Sessions |-> <<>>]
  /\ commandChunks = [p \in Prompts |-> <<>>]
  /\ beats = [p \in Prompts |-> 0]
  /\ turnEnds = [s \in Sessions |-> 0]

Init == PromptInit /\ ProcInit /\ ToolIdle /\ LineInit /\ CfgIdle /\ MapIdle /\ MgrIdle /\ PureIdle /\ StatusIdle /\ IsoIdle /\ ReplayIdle /\ RefreshIdle

Next ==
  \/ \E p \in Prompts, s \in Sessions, k \in PromptKinds : PromptCall(p, s, k)
  \/ \E p \in Prompts, outcome \in CommandOutcomes \cup {NoCommand} : PromptResume(p, outcome)
  \/ \E s \in Sessions : Cancel(s)
  \/ \E s \in Sessions : PiTakePrompt(s)
  \/ \E s \in Sessions, type \in EventTypes :
       \E reason \in (IF type = "turn_end" THEN StopReasonInputs ELSE {"missing"}) :
         handlePiLine(s, type, reason)
  \/ \E s \in Sessions, outcome \in SummaryOutcomes : handleAgentEnd(s, outcome)
  \/ \E s \in Sessions : onError(s)
  \/ \E s \in Sessions : onExit(s)

Spec == Init /\ [][Next]_vars

(***************************************************************************)
(* Specification of the status reporter of one session                     *)
(***************************************************************************)
InitStatus ==
  /\ PromptInit
  /\ runtimeImpl = "paths_ts"
  /\ ProcInit
  /\ ToolIdle
  /\ LineInit
  /\ CfgIdle
  /\ MapIdle
  /\ MgrIdle
  /\ PureIdle
  /\ StatusInit
  /\ IsoIdle
  /\ ReplayIdle
  /\ RefreshIdle

NextStatus == \E state \in StatusStates, detail \in DetailInputs : update(state, detail)

SpecStatus == InitStatus /\ [][NextStatus]_vars

(***************************************************************************)
(* Specification of the history replay of a loaded session                 *)
(***************************************************************************)
InitReplay ==
  /\ PromptInit
  /\ runtimeImpl = "paths_ts"
  /\ ProcInit
  /\ ToolIdle
  /\ LineInit
  /\ CfgIdle
  /\ MapIdle
  /\ MgrIdle
  /\ PureIdle
  /\ StatusIdle
  /\ IsoIdle
  /\ ReplayInit
  /\ RefreshIdle

NextReplay ==
  \/ replayHistory
  \/ \E outcome \in ReplayOutcomes : replayHistoryResume(outcome)

SpecReplay == InitReplay /\ [][NextReplay]_vars

(***************************************************************************)
(* Specification of the model bookkeeping of refreshSessionConfig          *)
(***************************************************************************)
InitRefresh ==
  /\ PromptInit
  /\ runtimeImpl = "paths_ts"
  /\ ProcInit
  /\ ToolIdle
  /\ LineInit
  /\ CfgIdle
  /\ MapIdle
  /\ MgrIdle
  /\ PureIdle
  /\ StatusIdle
  /\ IsoIdle
  /\ ReplayIdle
  /\ RefreshInit

NextRefresh == \E stateOk \in BOOLEAN, modelsOk \in BOOLEAN : refreshSessionConfig(stateOk, modelsOk)

SpecRefresh == InitRefresh /\ [][NextRefresh]_vars

(***************************************************************************)
(* Specification of two sessions side by side                              *)
(***************************************************************************)
InitIso ==
  /\ PromptInit
  /\ runtimeImpl = "paths_ts"
  /\ ProcInit
  /\ ToolIdle
  /\ LineInit
  /\ CfgIdle
  /\ MapIdle
  /\ MgrIdle
  /\ PureIdle
  /\ StatusIdle
  /\ IsoInit
  /\ ReplayIdle
  /\ RefreshIdle

NextIso ==
  \/ \E s \in SessionPair : sessionPrompt(s)
  \/ \E s \in SessionPair : sessionCancel(s)
  \/ \E s \in SessionPair, type \in IsoLineTypes, t \in ToolCallIds : sessionHandlePiLine(s, type, t)
  \/ \E s \in SessionPair, t \in ToolCallIds : sessionSnapshotDone(s, t)
  \/ \E s \in SessionPair : sessionHandleAgentEnd(s)
  \/ \E s \in SessionPair : sessionOnTimeout(s)
  \/ \E s \in SessionPair : sessionOnError(s)
  \/ \E s \in SessionPair : sessionOnExit(s)

SpecIso == InitIso /\ [][NextIso]_vars

(***************************************************************************)
(* Specification of the heartbeat timers: text prompts (a slash command    *)
(* never reaches the promise executor), the interval firing, and every     *)
(* handler that can settle a pending operation; turn_end lines carry the   *)
(* stop reason "stop"                                                      *)
(***************************************************************************)
NextBeat ==
  \/ \E p \in Prompts, s \in Sessions : PromptCall(p, s, "text")
  \/ \E p \in Prompts : PromptResume(p, NoCommand)
  \/ \E p \in Prompts : sendHeartbeat(p)
  \/ \E s \in Sessions : Cancel(s)
  \/ \E s \in Sessions : PiTakePrompt(s)
  \/ \E s \in Sessions, type \in EventTypes : handlePiLine(s, type, "stop")
  \/ \E s \in Sessions, outcome \in SummaryOutcomes : handleAgentEnd(s, outcome)
  \/ \E s \in Sessions : onError(s)
  \/ \E s \in Sessions : onExit(s)

SpecBeat == Init /\ [][NextBeat]_vars

\* the request awaited by a suspended handleAgentEnd is settled in the end
\* (by its response, its timer or the exit handler), and the call then resumes
SpecFair ==
  Spec /\ \A s \in Sessions : WF_vars(\E outcome \in SummaryOutcomes : handleAgentEnd(s, outcome))

(***************************************************************************)
(* Specification of one PiProcess                                          *)
(***************************************************************************)
InitProc ==
  /\ PromptInit
  /\ runtimeImpl = "paths_ts"
  /\ ProcInit
  /\ ToolIdle
  /\ LineInit
  /\ CfgIdle
  /\ MapIdle
  /\ MgrIdle
  /\ PureIdle
  /\ StatusIdle
  /\ IsoIdle
  /\ ReplayIdle
  /\ RefreshIdle

NextProc ==
  \/ \E c \in Calls : request(c)
  \/ \E type \in LineTypes :
       \E id \in (IF type = "response" THEN ResponseIds ELSE {NoId}), success \in BOOLEAN :
         onLine(type, id, success)
  \/ \E c \in Calls : onTimeout(c)
  \/ procOnExit
  \/ onLineListener

SpecProc == InitProc /\ [][NextProc]_vars

\* an armed setTimeout timer fires unless it is cleared first
SpecProcFair == SpecProc /\ \A c \in Calls : WF_vars(onTimeout(c))

(***************************************************************************)
(* Specification of the tool-call tracker of one session                   *)
(***************************************************************************)
InitTool ==
  /\ PromptInit
  /\ runtimeImpl = "paths_ts"
  /\ ProcInit
  /\ ToolInit
  /\ LineInit
  /\ CfgIdle
  /\ MapIdle
  /\ MgrIdle
  /\ PureIdle
  /\ StatusIdle
  /\ IsoIdle
  /\ ReplayIdle
  /\ RefreshIdle

NextTool ==
  \/ \E t \in ToolCallIds, argPath \in ArgPaths : handleStart(t, argPath)
  \/ \E task \in snapshotReads : snapshotFileRead(task)
  \/ \E task \in snapshotReads : snapshotFileDone(task)
  \/ \E t \in ToolCallIds : handleUpdate(t)
  \/ \E t \in ToolCallIds, isError \in BOOLEAN : handleEnd(t, isError)
  \/ \E path \in AbsPaths, text \in Texts \cup {Missing} : FileChange(path, text)

SpecTool == InitTool /\ [][NextTool]_vars

(***************************************************************************)
(* Specification of one session's line routing                             *)
(***************************************************************************)
InitLine ==
  /\ PromptInit
  /\ runtimeImpl = "paths_ts"
  /\ ProcInit
  /\ ToolIdle
  /\ LineInit
  /\ CfgIdle
  /\ MapIdle
  /\ MgrIdle
  /\ PureIdle
  /\ StatusIdle
  /\ IsoIdle
  /\ ReplayIdle
  /\ RefreshIdle

NextLine ==
  \/ \E line \in StdoutLines : PiWriteLine(line)
  \/ routeLine
  \/ \E hasSummary \in BOOLEAN : emitSummary(hasSummary)

SpecLine == InitLine /\ [][NextLine]_vars

(***************************************************************************)
(* Specification of one session's configuration calls                      *)
(***************************************************************************)
InitCfg ==
  /\ PromptInit
  /\ runtimeImpl = "paths_ts"
  /\ ProcInit
  /\ ToolIdle
  /\ LineInit
  /\ CfgInit
  /\ MapIdle
  /\ MgrIdle
  /\ PureIdle
  /\ StatusIdle
  /\ IsoIdle
  /\ ReplayIdle
  /\ RefreshIdle

NextCfg ==
  \/ \E sessionId \in SessionIdInputs, modelId \in ModelIdInputs : setModel(sessionId, modelId)
  \/ \E sessionId \in SessionIdInputs, configId \in ConfigIdInputs, value \in ValueInputs :
       setConfigOption(sessionId, configId, value)
  \/ \E outcome \in {"ok", "error", "timeout"}, applied \in BOOLEAN : setResponse(outcome, applied)
  \/ \E stateOk \in BOOLEAN, modelsOk \in BOOLEAN : refreshConfigOptions(stateOk, modelsOk)

SpecCfg == InitCfg /\ [][NextCfg]_vars

(***************************************************************************)
(* Specification of the persisted id-to-path map                           *)
(***************************************************************************)
InitMap ==
  /\ PromptInit
  /\ runtimeImpl = "paths_ts"
  /\ ProcInit
  /\ ToolIdle
  /\ LineInit
  /\ CfgIdle
  /\ MapInit
  /\ MgrIdle
  /\ PureIdle
  /\ StatusIdle
  /\ IsoIdle
  /\ ReplayIdle
  /\ RefreshIdle

NextMap ==
  \/ \E sessionId \in StoredIds : mapGet(sessionId)
  \/ \E sessionId \in StoredIds, piSessionPath \in StoredPaths : mapSet(sessionId, piSessionPath)
  \/ \E entries \in SessionMaps \ {EmptyObject} : mapMerge(entries)
  \/ \E i \in 1..MaxMapOps : mapRead(i)
  \/ \E i \in 1..MaxMapOps : mapWrite(i)

SpecMap == InitMap /\ [][NextMap]_vars

(***************************************************************************)
(* Specification of loading sessions                                       *)
(***************************************************************************)
InitMgr ==
  /\ PromptInit
  /\ runtimeImpl = "paths_ts"
  /\ ProcInit
  /\ ToolIdle
  /\ LineInit
  /\ CfgIdle
  /\ MapInit
  /\ MgrInit
  /\ PureIdle
  /\ StatusIdle
  /\ IsoIdle
  /\ ReplayIdle
  /\ RefreshIdle

NextMgr ==
  \/ \E sessionId \in StoredIds : loadSession(sessionId)
  \/ loadAfterGet
  \/ loadAfterScan
  \/ loadAfterMerge
  \/ \E success \in BOOLEAN : loadAfterSwitch(success)
  \/ \E i \in 1..Len(mapOps) : mapRead(i)
  \/ \E i \in 1..Len(mapOps) : mapWrite(i)
  \/ \E i \in 1..Len(spawned) : piExit(i)

SpecMgr == InitMgr /\ [][NextMgr]_vars

(***************************************************************************)
(* Specification of the initial notifications: the load calls as above,    *)
(* starting without a map file, and the timers and info reads they queue   *)
(***************************************************************************)
InitQueue ==
  /\ InitMgr
  /\ mapFile = NoFile

NextQueue ==
  \/ NextMgr
  \/ \E i \in 1..Len(initTasks) : initTimerFires(i)
  \/ \E i \in 1..Len(initTasks), hasInfo \in BOOLEAN : emitInitialSessionInfo(i, hasInfo)

SpecQueue == InitQueue /\ [][NextQueue]_vars

(***************************************************************************)
(* Specification of the pure helpers mapStopReason and resolveModelId      *)
(***************************************************************************)
InitPure ==
  /\ PromptInit
  /\ runtimeImpl = "paths_ts"
  /\ ProcInit
  /\ ToolIdle
  /\ LineInit
  /\ CfgIdle
  /\ MapIdle
  /\ MgrIdle
  /\ PureInit
  /\ StatusIdle
  /\ IsoIdle
  /\ ReplayIdle
  /\ RefreshIdle

NextPure ==
  \/ applyMapStopReason
  \/ applyResolveModelId

SpecPure == InitPure /\ [][NextPure]_vars

(***************************************************************************)
(* Specification of forking a transcript file                              *)
(***************************************************************************)
InitFork ==
  /\ PromptInit
  /\ runtimeImpl = "paths_ts"
  /\ ProcInit
  /\ ToolIdle
  /\ LineInit
  /\ CfgIdle
  /\ MapIdle
  /\ MgrIdle
  /\ ForkInit
  /\ StatusIdle
  /\ IsoIdle
  /\ ReplayIdle
  /\ RefreshIdle

NextFork == applyFork

SpecFork == InitFork /\ [][NextFork]_vars

(***************************************************************************)
(* Properties of the prompt life cycle                                     *)
(***************************************************************************)
Unsettled(s) == {p \in Prompts : promptSession[p] = s /\ promptPc[p] = "pending"}

\* C1: per session at most one prompt operation is pending at any instant: a
\* prompt() call never creates a second unsettled operation (nor overwrites the
\* slot of the first) while an earlier one is still unresolved.
C1_AtMostOnePending ==
  \A s \in Sessions : Cardinality(Unsettled(s)) <= 1

\* C2: the closures of every pending operation are invoked at most once, and the
\* slot never holds an operation that has been settled (the settling trigger
\* clears the slot in the same step, so later triggers find it empty).
C2_SettledAtMostOnce ==
  /\ \A p \in Prompts : settleCount[p] <= 1
  /\ \A s \in Sessions :
       pendingPrompt[s] # NoPrompt =>
         /\ settleCount[pendingPrompt[s]] = 0
         /\ promptPc[pendingPrompt[s]] = "pending"

\* a prompt cancelled while the subprocess worked on it; the subprocess's
\* agent_end for it was handled afterwards and found the slot empty
C2_Witness ==
  \E s \in Sessions :
    /\ promptPc[1] = "done" /\ settledBy[1].kind = "cancel" /\ settleCount[1] = 1
    /\ promptPc[2] = "new"
    /\ piRun[s] = NoPrompt /\ piInbox[s] = <<>> /\ agentEndTasks[s] = <<>>

\* C3: a turn_end event never resolves the pending operation.
C3_TurnEndNeverResolves ==
  \A p \in Prompts : settledBy[p].kind # "turn_end"

\* C4: a cancel on a session whose slot is filled writes an abort and, in that
\* same step, resolves the slot's operation with "cancelled" and empties the
\* slot; an operation resolved by cancel is never touched again by any later
\* event.
C4_CancelResolvesOnce ==
  [][ /\ \A s \in Sessions :
           (abortsSent'[s] = abortsSent[s] + 1 /\ pendingPrompt[s] # NoPrompt) =>
              /\ promptResult'[pendingPrompt[s]] = "cancelled"
              /\ settledBy'[pendingPrompt[s]].kind = "cancel"
              /\ settleCount'[pendingPrompt[s]] = 1
              /\ pendingPrompt'[s] = NoPrompt
      /\ \A p \in Prompts :
           settledBy[p].kind = "cancel" =>
              /\ promptResult'[p] = "cancelled"
              /\ settleCount'[p] = 1
              /\ settledBy'[p] = settledBy[p]
              /\ promptPc'[p] = "done"
    ]_vars

\* a prompt resolved by cancel whose subprocess, still working on it, has emitted
\* MaxTurns turn_end events since (under runtime.ts a turn_end before the cancel
\* would have resolved it first)
C4_Witness ==
  \E s \in Sessions :
    /\ runtimeImpl = "runtime_ts"
    /\ settledBy[1].kind = "cancel" /\ promptResult[1] = "cancelled"
    /\ abortsSent[s] = 1
    /\ piRun[s] = 1 /\ turnEnds[s] = MaxTurns

\* C5: an operation is settled only by a trigger of its own prompt: the
\* agent_end (or turn_end) line that resolves prompt p is one the subprocess
\* emitted while working on p.
C5_SettledByOwnTrigger ==
  \A p \in Prompts :
    settledBy[p].kind \in {"agent_end", "turn_end"} => settledBy[p].tag = p

\* C6: when the subprocess exits while a prompt is pending, the pending prompt
\* is rejected and the slot is cleared by the exit handling.
C6_ExitRejectsPendingPrompt ==
  [][ \A s \in Sessions : (alive[s] /\ ~alive'[s]) => pendingPrompt'[s] = NoPrompt ]_vars

(***************************************************************************)
(* Properties of PiProcess                                                 *)
(***************************************************************************)
\* C7: the exit handler rejects every request whose promise is still pending
\* with the process-exited error, cancels its timer, and leaves the
\* pending-request map empty.
C7_ExitRejectsAllPending ==
  [][ (~exited /\ exited') =>
        /\ pendingRequests' = EmptyMap
        /\ \A c \in Calls :
             reqOutcome[c] = "pending" =>
               /\ reqOutcome'[c] = "exited"
               /\ reqSettles'[c] = 1
               /\ c \notin timers'
    ]_vars

\* the process exited with two requests pending, a third having been answered
C7_Witness ==
  /\ exited
  /\ reqOutcome[1] = "exited" /\ reqOutcome[3] = "exited"
  /\ reqOutcome[2] = "resolved_success"

\* C8: a request that gets no reply keeps its timer armed until it is settled,
\* and once the timer has rejected it with the timeout error its correlation id
\* is no longer in the pending-request map.
C8_TimeoutRejectsNoLeak ==
  \A c \in Calls :
    /\ reqOutcome[c] = "pending" =>
         /\ c \in timers
         /\ reqId[c] \in DOMAIN pendingRequests
         /\ pendingRequests[reqId[c]] = c
    /\ reqOutcome[c] = "timeout" =>
         /\ reqSettles[c] = 1
         /\ c \notin timers
         /\ reqId[c] \notin DOMAIN pendingRequests

\* a request timed out while the process was alive and no line had answered anything
C8_Witness ==
  /\ ~exited
  /\ reqOutcome[1] = "timeout"
  /\ \A c \in Calls : reqOutcome[c] \notin {"resolved_success", "resolved_failure"}

\* C9: the ids given to request() calls are pairwise distinct, and a response
\* line with id X settles, removes and disarms only the request issued with X.
C9_NoCrossTalk ==
  /\ [](\A c, d \in Calls : (c # d /\ reqId[c] # NoId /\ reqId[d] # NoId) => reqId[c] # reqId[d])
  /\ [][ \A id \in ResponseIds, success \in BOOLEAN :
           onLine("response", id, success) =>
             \A c \in Calls :
               reqId[c] # id =>
                 /\ reqOutcome'[c] = reqOutcome[c]
                 /\ reqSettles'[c] = reqSettles[c]
                 /\ (c \in timers') = (c \in timers)
                 /\ (reqId[c] \in DOMAIN pendingRequests') = (reqId[c] \in DOMAIN pendingRequests)
       ]_vars

\* three requests pending together, the one issued second answered first
C9_Witness ==
  /\ reqOutcome[2] = "resolved_failure"
  /\ reqOutcome[1] = "pending" /\ reqOutcome[3] = "pending"
  /\ timers = {1, 3}

(***************************************************************************)
(* Properties of the tool-call tracker                                     *)
(***************************************************************************)
\* C10: the tool_call_update emitted at tool_execution_end carries a diff entry
\* exactly when a snapshot is held for that tool-call id, the file can be read
\* again, and its text differs from the snapshot text; the diff then holds the
\* snapshot text as oldText and the text just read as newText.
C10_DiffIffChanged ==
  [][ \A t \in ToolCallIds, isError \in BOOLEAN :
        handleEnd(t, isError) =>
          LET u == emitted'[Len(emitted')]
              owed == /\ t \in DOMAIN toolCallSnapshots
                      /\ files[toolCallSnapshots[t].path] # Missing
                      /\ files[toolCallSnapshots[t].path] # toolCallSnapshots[t].oldText
          IN  /\ u.toolCallId = t
              /\ (u.diff # NoDiff) <=> owed
              /\ owed => /\ u.diff.oldText = toolCallSnapshots[t].oldText
                         /\ u.diff.newText = files[toolCallSnapshots[t].path]
                         /\ u.diff.oldText # u.diff.newText
    ]_vars

\* a tool call named the file by a relative path, its snapshot was taken, the
\* file was rewritten, and the call ended with a diff of the two texts, while
\* an update for the other tool call in between carried none
C10_Witness ==
  /\ Len(emitted) = 3
  /\ emitted[1].sessionUpdate = "tool_call" /\ emitted[1].toolCallId = "t1"
  /\ emitted[2].toolCallId = "t2" /\ emitted[2].status = "completed"
  /\ emitted[2].diff = NoDiff
  /\ emitted[3].toolCallId = "t1" /\ emitted[3].status = "completed"
  /\ emitted[3].diff = [type |-> "diff", path |-> "/cwd/f.txt",
                        oldText |-> "old", newText |-> "new"]
  /\ snapshotReads = {} /\ toolCallSnapshots = EmptyMap

\* C11: an id is in the snapshot map only while its tool call has started and
\* not yet ended (toolCallInputs holds exactly the ids between their
\* tool_execution_start and tool_execution_end); in particular no entry for an
\* id is left once its tool_execution_end has been handled.
C11_SnapshotOnlyWhileRunning ==
  \A t \in DOMAIN toolCallSnapshots : t \in toolCallInputs

(***************************************************************************)
(* Properties of the line routing                                          *)
(***************************************************************************)
IsJson(i) == piSent[i].kind = "json"
IsDelta(i) ==
  /\ IsJson(i)
  /\ piSent[i].type = "message_update"
  /\ piSent[i].ame \in {"text_delta", "thinking_delta"}

RECURSIVE Ascending(_)
\* the members of a finite set of positions, in ascending order
Ascending(S) ==
  IF S = {} THEN <<>>
  ELSE LET m == CHOOSE x \in S : \A y \in S : y <= x
       IN  Append(Ascending(S \ {m}), m)

FromMessageUpdate(c) == c.cause # NoCause

\* C12: the lines given to handlePiLine are the JSON lines read so far in
\* emission order, and the chunks caused by message_update events are, in
\* order, one chunk per text_delta / thinking_delta event read so far, of the
\* matching kind and with the event's delta: none lost, duplicated or reordered.
C12_OrderPreserved ==
  /\ handledLines = Ascending({i \in 1..nRead : IsJson(i)})
  /\ LET caused == SelectSeq(chunks, FromMessageUpdate)
         expected == Ascending({i \in 1..nRead : IsDelta(i)})
     IN  /\ Len(caused) = Len(expected)
         /\ \A k \in 1..Len(caused) :
              /\ caused[k].cause = expected[k]
              /\ caused[k].text = piSent[expected[k]].delta
              /\ caused[k].sessionUpdate =
                   IF piSent[expected[k]].ame = "text_delta"
                   THEN "agent_message_chunk" ELSE "agent_thought_chunk"

\* a thought chunk and a message chunk were emitted in the order of their
\* events, with an unparseable line between the two events
C12_Witness ==
  /\ nRead = 3 /\ Len(piSent) = 3
  /\ piSent[1].ame = "thinking_delta"
  /\ piSent[2].kind = "garbage"
  /\ piSent[3].ame = "text_delta" /\ piSent[3].delta = "a"
  /\ Len(chunks) = 2
  /\ chunks[1].sessionUpdate = "agent_thought_chunk"
  /\ chunks[2].sessionUpdate = "agent_message_chunk" /\ chunks[2].text = "a"

(***************************************************************************)
(* Properties of the configuration calls                                   *)
(***************************************************************************)
\* C13: a successful setConfigOption(auto_compaction, on) on a live session
\* wrote set_auto_compaction{enabled: true}, then fetched the configuration
\* again, and the config_option_update broadcast when it finishes shows
\* auto_compaction = on.
C13_ToggleOnBroadcastsOn ==
  [][ \A stateOk \in BOOLEAN, modelsOk \in BOOLEAN :
        ( /\ refreshConfigOptions(stateOk, modelsOk)
          /\ cfgCall.configId = "auto_compaction"
          /\ cfgCall.value = <<"on">> )
        => /\ \E i \in 1..Len(piWritten) :
                /\ piWritten[i] = [type |-> "set_auto_compaction", enabled |-> TRUE]
                /\ i + 2 = Len(piWritten)
                /\ piWritten[i + 1].type = "get_state"
           /\ broadcasts'[Len(broadcasts')]["auto_compaction"] = "on"
    ]_vars

\* the input names, in one of the accepted forms, a model registered with
\* the session or offered by the subprocess
NamesModel(modelId, model) ==
  \/ modelId = model.provider \o <<Colon>> \o model.id
  \/ modelId = model.provider \o <<Slash>> \o model.id
  \/ modelId = model.id
KnownModelId(modelId) ==
  \/ \E i \in 1..Len(modelMap) : modelMap[i].key = modelId \/ NamesModel(modelId, modelMap[i].value)
  \/ \E i \in 1..Len(PiModels) : NamesModel(modelId, PiModels[i])

\* the step rejected the call: nothing written, no call in progress, no
\* session state changed, and the recorded outcome is one of the errors
RejectedBeforeWrite(errors) ==
  /\ piWritten' = piWritten
  /\ cfgCall' = NoCall
  /\ UNCHANGED <<sessToggles, modelMap, broadcasts>>
  /\ Len(cfgResults') = Len(cfgResults) + 1
  /\ cfgResults'[Len(cfgResults')] \in errors

\* C14: a setModel / setConfigOption naming an unknown session, a setModel
\* (or setConfigOption model) with an unknown model id, and a setConfigOption
\* with an unknown option id are rejected with the matching error before any
\* command is written to the subprocess and leave the session unchanged.
C14_InvalidRejectedBeforeWrite ==
  [][ /\ \A sessionId \in SessionIdInputs, modelId \in ModelIdInputs :
           ( /\ setModel(sessionId, modelId)
             /\ (sessionId \notin Sessions \/ ~KnownModelId(modelId)) )
           => RejectedBeforeWrite({"Unknown session", "Unknown model"})
      /\ \A sessionId \in SessionIdInputs, configId \in ConfigIdInputs, value \in ValueInputs :
           ( /\ setConfigOption(sessionId, configId, value)
             /\ \/ sessionId \notin Sessions
                \/ configId \notin Toggles \cup {"model"}
                \/ configId = "model" /\ ~KnownModelId(value) )
           => RejectedBeforeWrite({"Unknown session", "Unknown model", "Unknown config option"})
    ]_vars

(***************************************************************************)
(* Properties of the persisted id-to-path map                              *)
(***************************************************************************)
\* the ids a set or merge call was given
GivenIds(op) == IF op.kind = "set" THEN {op.sessionId} ELSE DOMAIN op.entries
GivenPath(op, id) == IF op.kind = "set" THEN op.piSessionPath ELSE op.entries[id]

\* C19: a get that reads a missing or unparseable file returns null; when a
\* set or merge call writes the file, a get of every id it was given would
\* return the path it was given, and the entry of every other id reads as it
\* did before the write.
C19_ReadMergeWrite ==
  [][ \A i \in 1..MaxMapOps :
        /\ ( mapRead(i) /\ mapOps[i].kind = "get" /\ mapFile.kind \in {"ENOENT", "garbage"} )
             => mapOps'[i].result = NoPathStored
        /\ mapWrite(i) =>
             /\ \A id \in GivenIds(mapOps[i]) :
                  lookup(read(mapFile'), id) = GivenPath(mapOps[i], id)
             /\ \A id \in StoredIds \ GivenIds(mapOps[i]) :
                  lookup(read(mapFile'), id) = lookup(read(mapFile), id)
    ]_vars

C20_OneProcessPerSession ==
  \A i \in 1..Len(spawned) :
    spawned[i].running => sessions[spawned[i].sessionId].proc = i

(***************************************************************************)
(* Properties of the pure helpers                                          *)
(***************************************************************************)
\* C16: mapStopReason returns end_turn for stop, max_tokens for length,
\* cancelled for aborted, end_turn for toolUse, and end_turn for every other
\* or missing value.
C16_StopReasonTotal ==
  stopReasonOut # Unset =>
    stopReasonOut.value =
      ( CASE stopReasonIn = "stop" -> "end_turn"
          [] stopReasonIn = "length" -> "max_tokens"
          [] stopReasonIn = "aborted" -> "cancelled"
          [] stopReasonIn = "toolUse" -> "end_turn"
          [] OTHER -> "end_turn" )

\* C17: naming a model with provider P and id I by 'P:I' (registered or not)
\* or by 'P/I' resolves to a descriptor with provider P and id I, and every
\* resolution of the same input against the same map returns the same descriptor.
C17_FormatTolerant ==
  \A k \in 1..Len(resolveOut) :
    /\ resolveOut[k] = resolveOut[1]
    /\ resolveIn.form \in {"colon", "slash"}
         => /\ resolveOut[k].provider = resolveIn.model.provider
            /\ resolveOut[k].id = resolveIn.model.id

\* C18: the forked file starts with a new session header (fresh id,
\* parentSession = source path), followed by every line of the source after
\* its header, blank lines aside, in order and unchanged; reading it back
\* gives the same message entries as the source.
C18_ForkRoundTrip ==
  forkOut # Unset /\ forkOut.kind = "written" =>
    LET out == nonBlankLines(forkOut.content)
        src == nonBlankLines(forkIn)
    IN  /\ forkOut.content[1] = [kind |-> "session", id |-> NewId, parentSession |-> SourcePath]
        /\ NewId # src[1].id
        /\ Len(out) = Len(src)
        /\ \A k \in 2..Len(src) : out[k] = src[k]
        /\ messageEntries(forkOut.content) = messageEntries(forkIn)

\* a source with a header, a blank line and a message was forked
C18_Witness ==
  /\ forkOut # Unset
  /\ forkOut.kind = "written"
  /\ Len(forkIn) = 3
  /\ forkIn[1] = SourceHeader
  /\ forkIn[2].kind = "blank"
  /\ messageEntries(forkOut.content) = <<[kind |-> "message", id |-> "m2", parentSession |-> "-"]>>

\* C21: when a load / resume / fork call fails at switch_session (answer with
\* success=false, timeout or exit), the subprocess spawned by the call is not
\* registered as the live session of that id.
C21_FailedSwitchNotRegistered ==
  [][(/\ Len(mgrResults') = Len(mgrResults) + 1
      /\ mgrResults'[Len(mgrResults')].outcome = "Failed to switch session")
     => sessions'[mgrResults'[Len(mgrResults')].sessionId].proc
          # mgrResults'[Len(mgrResults')].proc]_vars

\* C22: a request() call made after the subprocess has exited is rejected at
\* once; it is not left pending in the map with its timer armed.
C22_RequestAfterExitRejected ==
  [][\A c \in Calls :
       (exited /\ reqId[c] = NoId /\ reqId'[c] # NoId) =>
         /\ reqOutcome'[c] # "pending"
         /\ reqId'[c] \notin DOMAIN pendingRequests'
         /\ c \notin timers'
    ]_vars

\* C23 (as amended): a response line whose id is pending cancels that request's
\* timeout, removes the entry and resolves the request's promise with the
\* response, whether its success flag is true or false.
C23_ResponseResolvesPending ==
  [][\A id \in ResponseIds, success \in BOOLEAN :
       (onLine("response", id, success) /\ id \in DOMAIN pendingRequests) =>
         LET c == pendingRequests[id]
         IN  /\ c \notin timers'
             /\ id \notin DOMAIN pendingRequests'
             /\ reqOutcome'[c] = (IF success THEN "resolved_success" ELSE "resolved_failure")
             /\ reqSettles'[c] = reqSettles[c] + 1
    ]_vars

\* C23 (as stated): ... and the promise is rejected when success is false.
C23_FailureRejects ==
  [][\A id \in ResponseIds :
       (onLine("response", id, FALSE) /\ id \in DOMAIN pendingRequests) =>
         reqOutcome'[pendingRequests[id]] \notin {"resolved_success", "resolved_failure"}
    ]_vars

\* a success=false response settled the first request with a listener
\* registered, while a second request stayed pending
C23_Witness ==
  /\ reqId[1] # NoId
  /\ delivered = <<1>>
  /\ reqOutcome[1] = "resolved_failure"
  /\ reqSettles[1] = 1
  /\ 1 \notin timers
  /\ reqOutcome[2] = "pending"

\* C24: every line that JSON.parse accepts is handed to every registered line
\* listener exactly once, in registration order, during the handling of that
\* line (so in arrival order): events always, responses whether or not they
\* matched a pending request.
C24_EveryParsedLineDelivered ==
  [][\A type \in LineTypes \ {"garbage"}, id \in ResponseIds, success \in BOOLEAN :
       onLine(type, id, success) =>
         delivered' = [k \in 1..listeners |-> k]
    ]_vars

\* C25: the promise of a request() call is settled exactly once, by the first
\* of its response, its timeout and the process exit: resolve / reject is
\* invoked at most once per call, a settled call has no armed timer and no
\* map entry (so a later response or timeout finds nothing), its outcome never
\* changes afterwards, and a pending call is settled in the end.
C25_SettledExactlyOnce ==
  /\ [](\A c \in Calls :
          /\ reqSettles[c] <= 1
          /\ reqOutcome[c] \notin {"none", "pending"} =>
               /\ reqSettles[c] = 1
               /\ c \notin timers
               /\ \A id \in DOMAIN pendingRequests : pendingRequests[id] # c)
  /\ [][\A c \in Calls :
          reqOutcome[c] \notin {"none", "pending"} =>
            /\ reqOutcome'[c] = reqOutcome[c]
            /\ reqSettles'[c] = reqSettles[c]]_vars
  /\ \A c \in Calls : (reqOutcome[c] = "pending") ~> (reqOutcome[c] # "pending")

\* one request settled by its response, one by its timeout, one by the exit
C25_Witness ==
  /\ reqOutcome[1] = "resolved_success"
  /\ reqOutcome[2] = "timeout"
  /\ reqOutcome[3] = "exited"
  /\ \A c \in Calls : reqSettles[c] = 1

\* C26: a request's timeout rejects that request alone: the subprocess is not
\* killed and every other request keeps its outcome, its map entry and its
\* armed timer.
C26_TimeoutRejectsOnlyItsCaller ==
  [][\A c \in Calls :
       onTimeout(c) =>
         /\ reqOutcome'[c] = "timeout"
         /\ exited' = exited
         /\ \A d \in Calls \ {c} :
              /\ reqOutcome'[d] = reqOutcome[d]
              /\ reqSettles'[d] = reqSettles[d]
              /\ (d \in timers') = (d \in timers)
              /\ \A id \in DOMAIN pendingRequests :
                   pendingRequests[id] = d =>
                     id \in DOMAIN pendingRequests' /\ pendingRequests'[id] = d
    ]_vars

\* the second request timed out while the first and third stayed pending on a
\* live subprocess
C26_Witness ==
  /\ ~exited
  /\ reqOutcome[2] = "timeout"
  /\ reqOutcome[1] = "pending" /\ reqOutcome[3] = "pending"
  /\ timers = {1, 3}
  /\ DOMAIN pendingRequests = {reqId[1], reqId[3]}

NoPromptMidCall == \A q \in Prompts : promptPc[q] = "await" => promptKind[q] = "slash"

SlashFrame(p) ==
  /\ piInbox' = piInbox
  /\ piRun' = piRun
  /\ pendingPrompt' = pendingPrompt
  /\ heartbeat' = heartbeat
  /\ ~heartbeat'[p]

\* C29 (as amended): a prompt that names a known command is handled by the
\* command's action alone: no prompt command is sent, the pending slot is not
\* filled, no heartbeat is started, and the call returns end_turn unless the
\* action throws, in which case the call fails with the action's error.
C29_SlashShortCircuits ==
  [][\A p \in Prompts :
       /\ \A s \in Sessions :
            (PromptCall(p, s, "slash") /\ pendingPrompt[s] = NoPrompt) => SlashFrame(p)
       /\ \A outcome \in CommandOutcomes :
            PromptResume(p, outcome) =>
              /\ SlashFrame(p)
              /\ promptPc'[p] = "done"
              /\ promptResult'[p] = IF outcome \in {"timeout", "exited"}
                                    THEN commandAction(outcome).error ELSE "end_turn"
    ]_vars

\* C29 (as stated): ... and the call returns end_turn.
C29_SlashReturnsEndTurn ==
  [][\A p \in Prompts, outcome \in CommandOutcomes :
       PromptResume(p, outcome) => promptResult'[p] = "end_turn"]_vars

\* the first prompt was a command whose action ran and returned; nothing was
\* sent to the subprocess as a prompt and the slot is empty
C29_Witness ==
  /\ promptPc[1] = "done"
  /\ promptResult[1] = "end_turn"
  /\ commandChunks[1] = <<"done">>
  /\ settleCount[1] = 0
  /\ \A s \in Sessions : pendingPrompt[s] = NoPrompt /\ piInbox[s] = <<>> /\ piRun[s] = NoPrompt

C31_FailedMutationNoRefresh ==
  [][ /\ setResponse("error", FALSE) =>
           /\ cfgResults' = Append(cfgResults, "Failed to set")
           /\ cfgCall' = NoCall
           /\ UNCHANGED <<piWritten, broadcasts, sessToggles, modelMap>>
      /\ (cfgCall.pc # "awaitRefresh" /\ cfgCall'.pc = "awaitRefresh")
           => setResponse("ok", TRUE)
      /\ (~UNCHANGED <<broadcasts, sessToggles, modelMap>>)
           => cfgCall.pc = "awaitRefresh" /\ cfgCall' = NoCall
    ]_vars

\* a failed mutation followed by a successful one: only the second one
\* fetched the configuration and broadcast it
C31_Witness ==
  /\ cfgResults = <<"Failed to set", "ok">>
  /\ Len(broadcasts) = 1
  /\ Len(piWritten) = 4
  /\ piWritten[2].type # "get_state"

(***************************************************************************)
(* Properties of the heartbeat timer                                       *)
(***************************************************************************)
\* C32: the heartbeat interval of a prompt is armed, and its first
\* notification sent, in the step that fills the pending slot; it stays
\* armed exactly while the operation is unsettled; and whichever handler
\* settles the operation clears it, so every later notification of the call
\* is emitted while the operation is still pending.
C32_HeartbeatWhilePending ==
  /\ [](\A p \in Prompts : heartbeat[p] = (promptPc[p] = "pending" /\ settleCount[p] = 0))
  /\ [][\A p \in Prompts :
          /\ (~heartbeat[p] /\ heartbeat'[p]) =>
               /\ pendingPrompt'[promptSession[p]] = p
               /\ pendingPrompt[promptSession[p]] # p
               /\ beats[p] = 0 /\ beats'[p] = 1
          /\ (promptPc[p] = "pending" /\ promptPc'[p] # "pending") =>
               /\ settleCount'[p] = 1
               /\ ~heartbeat'[p]
          /\ beats'[p] # beats[p] =>
               /\ beats'[p] = beats[p] + 1
               /\ promptPc'[p] = "pending"
               /\ settleCount'[p] = 0
     ]_vars

\* the interval of prompt 1 fired once, then cancel settled the operation
\* and cleared it; prompt 2 is pending with its own interval armed
C32_Witness ==
  /\ beats[1] = 2
  /\ promptResult[1] = "cancelled"
  /\ settledBy[1].kind = "cancel"
  /\ ~heartbeat[1]
  /\ heartbeat[2]
  /\ beats[2] = 1

(***************************************************************************)
(* Properties of the initial notifications                                 *)
(***************************************************************************)
\* C33: the initial notifications of a loaded session are never emitted by
\* a step of the load call itself: each one is emitted in a later step
\* (the zero-delay timer, or the info read it starts), when the call that
\* queued it has already returned its result, and for a session id that is
\* in the live map; the timer callback emits nothing for an id that is not
\* in the live map when it runs.
C33_InitUpdatesDeferred ==
  /\ [][ initUpdates' # initUpdates =>
           /\ mgrResults' = mgrResults
           /\ loadCall' = loadCall
           /\ Len(initUpdates') > Len(initUpdates)
           /\ SubSeq(initUpdates', 1, Len(initUpdates)) = initUpdates
           /\ \A k \in (Len(initUpdates) + 1)..Len(initUpdates') :
                /\ initUpdates'[k].call \in 1..Len(mgrResults)
                /\ mgrResults[initUpdates'[k].call].outcome = "ok"
                /\ mgrResults[initUpdates'[k].call].sessionId = initUpdates'[k].sessionId
                /\ sessions[initUpdates'[k].sessionId] # NoSession
     ]_vars
  /\ [][ \A i \in 1..Len(initTasks) :
           (initTimerFires(i) /\ sessions[initTasks[i].sessionId] = NoSession)
             => initUpdates' = initUpdates ]_vars
  /\ [](\A sessionId \in StoredIds, call \in 1..MaxLoads :
          initialUpdates(sessionId, call, FALSE) = <<>>)

\* the first load has returned and its timer has emitted, while a second
\* load call is still in progress
C33_Witness ==
  /\ Len(mgrResults) = 1
  /\ mgrResults[1].outcome = "ok"
  /\ Len(initUpdates) >= 2
  /\ initUpdates[1] = [sessionId |-> mgrResults[1].sessionId, call |-> 1,
                       update |-> "available_commands_update"]
  /\ loadCall # NoLoad

(***************************************************************************)
(* Properties of the tool-call notifications                               *)
(***************************************************************************)
\* the tool_execution_* lines and the notifications of one tool-call id
EventsOf(t) == SelectSeq(toolEvents, LAMBDA e : e.toolCallId = t)
EmittedOf(t) == SelectSeq(emitted, LAMBDA u : u.toolCallId = t)
Terminal(u) == u.sessionUpdate = "tool_call_update" /\ u.status \in {"completed", "failed"}
\* the lines so far are a start, then updates, then at most one end as the last
StartUpdatesEnd(evs) ==
  /\ evs # <<>> => evs[1].type = "tool_execution_start"
  /\ \A i \in 2..Len(evs) :
       /\ evs[i].type # "tool_execution_start"
       /\ evs[i].type = "tool_execution_end" => i = Len(evs)

\* C34: for a tool-call id whose lines arrive as start, update*, end, every
\* line gives one notification, the first is the tool_call creation and all
\* later ones are tool_call_updates, whether or not the snapshot read of the
\* start has finished; and for every id the terminal tool_call_updates are
\* as many as the end lines handled.
C34_ToolCallBeforeUpdates ==
  \A t \in ToolCallIds :
    /\ StartUpdatesEnd(EventsOf(t)) =>
         /\ Len(EmittedOf(t)) = Len(EventsOf(t))
         /\ EmittedOf(t) # <<>> => EmittedOf(t)[1].sessionUpdate = "tool_call"
         /\ \A i \in 2..Len(EmittedOf(t)) :
              /\ EmittedOf(t)[i].sessionUpdate = "tool_call_update"
              /\ Terminal(EmittedOf(t)[i]) = (EventsOf(t)[i].type = "tool_execution_end")
    /\ Cardinality({i \in 1..Len(EmittedOf(t)) : Terminal(EmittedOf(t)[i])})
         = Cardinality({i \in 1..Len(EventsOf(t)) : EventsOf(t)[i].type = "tool_execution_end"})

\* tool call t1 named a file, was updated and ended while the snapshot read
\* of its start was still outstanding
C34_Witness ==
  /\ Len(EventsOf("t1")) = 3
  /\ EventsOf("t1")[2].type = "tool_execution_update"
  /\ EventsOf("t1")[3].type = "tool_execution_end"
  /\ StartUpdatesEnd(EventsOf("t1"))
  /\ \E task \in snapshotReads : task.id = "t1" /\ task.text = "unread"
  /\ EmittedOf("t1")[1].sessionUpdate = "tool_call"

\* C35: the status of the tool_call_update emitted at tool_execution_end is
\* failed exactly when the line's isError flag is set; when a snapshot is
\* held and the file cannot be read again the update carries no diff, its
\* status still follows isError alone, and the update is emitted all the same.
C35_StatusFromIsErrorOnly ==
  [][ \A t \in ToolCallIds, isError \in BOOLEAN :
        handleEnd(t, isError) =>
          LET u == emitted'[Len(emitted')] IN
          /\ Len(emitted') = Len(emitted) + 1
          /\ u.toolCallId = t
          /\ u.sessionUpdate = "tool_call_update"
          /\ (u.status = "failed") = isError
          /\ (u.status = "completed") = ~isError
          /\ ( /\ t \in DOMAIN toolCallSnapshots
               /\ files[toolCallSnapshots[t].path] = Missing ) => u.diff = NoDiff
    ]_vars

\* a snapshot was taken, the file was deleted, and the tool call ended without
\* error: the re-read failed with a warning, the update says completed, no diff
C35_Witness ==
  /\ readWarnings = 1
  /\ Len(emitted) = 2
  /\ emitted[2].status = "completed"
  /\ emitted[2].diff = NoDiff
  /\ files["/cwd/f.txt"] = Missing

(***************************************************************************)
(* Properties of the status reporter                                       *)
(***************************************************************************)
\* C36: the status reporter has emitted exactly one creating tool_call once
\* it has been used, and that one first; every notification carries the id
\* session_status:<sessionId>; an update() call whose (state, detail) pair
\* equals the recorded pair emits nothing and leaves the recorded fields as
\* they are; and after the creation a call with a different pair records the
\* pair and emits exactly one tool_call_update for it.
C36_StatusOnlyOnChange ==
  /\ [](/\ Cardinality({i \in 1..Len(statusEmitted) :
                          statusEmitted[i].sessionUpdate = "tool_call"})
             = (IF statusToolCallId THEN 1 ELSE 0)
        /\ statusToolCallId = (nStatusCalls > 0)
        /\ statusEmitted # <<>> => statusEmitted[1].sessionUpdate = "tool_call"
        /\ \A i \in 1..Len(statusEmitted) : statusEmitted[i].toolCallId = StatusId)
  /\ [][ \A state \in StatusStates, detail \in DetailInputs :
           update(state, detail) =>
             IF statusState = state /\ statusDetail = DetailOrNull(detail)
             THEN UNCHANGED <<statusEmitted, statusState, statusDetail, statusToolCallId>>
             ELSE /\ statusState' = state
                  /\ statusDetail' = DetailOrNull(detail)
                  /\ statusToolCallId =>
                       statusEmitted' =
                         Append(statusEmitted,
                                statusNote("tool_call_update", mapStatus(state), state, detail))
     ]_vars

\* three calls: the first created the notification, the second repeated the
\* recorded pair and emitted nothing, the third changed it and emitted an update
C36_Witness ==
  /\ nStatusCalls = 3
  /\ statusImpl = "part_002"
  /\ Len(statusEmitted) = 2
  /\ statusEmitted[1].sessionUpdate = "tool_call"
  /\ statusEmitted[2].sessionUpdate = "tool_call_update"
  /\ statusEmitted[2].state # statusEmitted[1].state


\* some call or subprocess event of session a is handled in this step
HandledOn(a) ==
  \/ sessionPrompt(a)
  \/ sessionCancel(a)
  \/ \E type \in IsoLineTypes, t \in ToolCallIds : sessionHandlePiLine(a, type, t)
  \/ \E t \in ToolCallIds : sessionSnapshotDone(a, t)
  \/ sessionHandleAgentEnd(a)
  \/ sessionOnTimeout(a)
  \/ sessionOnError(a)
  \/ sessionOnExit(a)

TextItemsOf(message) ==
  SelectSeq(message.content.items, LAMBDA item : item.type = "text")

\* per message in order, one chunk per text item, tagged by the role; with
\* skipEmpty an array content's text items with an empty text give no chunk
RECURSIVE OneChunkPerItem(_, _)
OneChunkPerItem(messages, skipEmpty) ==
  IF messages = <<>> THEN <<>>
  ELSE LET m == Head(messages)
           items == SelectSeq(TextItemsOf(m),
                              LAMBDA item : \/ ~skipEmpty
                                            \/ m.content.kind = "string"
                                            \/ item.text # "")
           tag == IF m.role = "user" THEN "user_message_chunk" ELSE "agent_message_chunk"
       IN [i \in 1..Len(items) |-> [sessionUpdate |-> tag, text |-> items[i].text]]
          \o OneChunkPerItem(Tail(messages), skipEmpty)

\* a get_messages request that did not succeed emits nothing, and the load
\* never raises because of the replay
ReplaySilentOnFailure ==
  /\ loadResult # "raised"
  /\ (replayPc = "done" /\ replayOutcome # "ok") => replayEmitted = <<>>

ModelKeys(map) == {map[i].key : i \in 1..Len(map)}
KnownModels == {modelsResult[i] : i \in 1..Len(modelsResult)}

\* C40: after every refreshSessionConfig the keys of the model map are
\* exactly the provider:id encodings of the known models, with one entry per
\* distinct provider/id pair, and currentModelId is undefined (no model
\* known) or a key of the map, also when the reported current model is
\* absent from the available-models list.
C40_ModelMapKeysAreEncodings ==
  nRefreshes > 0 =>
    /\ ModelKeys(sessionModelMap) = {encodeModelId(m) : m \in KnownModels}
    /\ Len(sessionModelMap) = Cardinality({<<m.provider, m.id>> : m \in KnownModels})
    /\ \/ currentModelId = Undef /\ KnownModels = {}
       \/ currentModelId # Undef /\ currentModelId \in ModelKeys(sessionModelMap)

\* the same, for reports in which no provider name holds a colon
C40_HoldsWithoutColonProvider ==
  (\A m \in KnownModels : Colon \notin {m.provider[i] : i \in 1..Len(m.provider)})
    => C40_ModelMapKeysAreEncodings

====
